---------------------------- MODULE Spec2Model ----------------------------
(***************************************************************************)
(* GovVerifyAgent: the agent's tool-orchestration core.                    *)
(*                                                                         *)
(*   - the session store (conversationHistory, getOrCreateConversation,    *)
(*     cleanupInactiveConversations, clearUserConversation),               *)
(*   - the bounded tool-calling loop of GovVerifyAgent.processMessage,     *)
(*   - the tool handlers of tools/verification.ts and the DailyStatistics  *)
(*     helpers they call.                                                  *)
(*                                                                         *)
(* Node runs one synchronous block at a time; a block ends at an await.    *)
(* Every action below is one such block: from the resumption of an await   *)
(* to the next await (or the return).                                      *)
(***************************************************************************)
EXTENDS Integers, Sequences, FiniteSets, TLC

VARIABLES
    \* ---- GovVerifyAgent fields
    conversationHistory, \* Map<phone, {messages, lastActivity}>; messages is a reference into heap
    heap,                \* the message arrays ever allocated, by reference
    currentUserPhone,    \* this.currentUserPhone
    currentLocationContext, \* this.currentLocationContext
    clock,               \* Date.now(), in ms
    \* ---- one record per processMessage invocation (its locals and position)
    turn,
    \* ---- persistence (prisma)
    users,               \* user table: the phones that have a row
    activityLog,         \* activity_logs rows, in insertion order
    informationRequest,  \* information_requests rows; a row's id is its index
    verification,        \* verifications rows; a row's id is its index
    cyberThreatReport,   \* cyber_threat_reports rows; a row's id is its index
    dailyStatistics,     \* daily_statistics rows, date unique
    \* ---- one record per tool handler invocation (its locals and position)
    inv,
    \* ---- the results of the clearUserConversation calls, in order
    clears,
    \* ---- persistence of the problem reports (prisma)
    problem,             \* problems rows; a row's id is its index
    problemUpvote,       \* problem_upvotes rows, in insertion order
    \* ---- environment of a specification, fixed by its initial state
    env

turnVars == <<conversationHistory, heap, currentUserPhone, currentLocationContext, clock, turn>>
dbVars == <<users, activityLog>>
toolVars == <<informationRequest, verification, cyberThreatReport, dailyStatistics, inv>>
vars == <<conversationHistory, heap, currentUserPhone, currentLocationContext, clock, turn,
          users, activityLog, informationRequest, verification, cyberThreatReport,
          dailyStatistics, inv, env, clears, toolVars, problem, problemUpvote>>
upVars == <<problem, problemUpvote>>

-----------------------------------------------------------------------------
(* Bounds of the model *)

\* processMessage invocations a behaviour may hold
MaxTurns == 2
\* tool calls the language model may request within one turn, over all its responses
MaxToolCalls == 2

\* tool-call responses the model may give within one turn of SpecCalls
MaxRounds == 2

(* Program constants *)

\* const maxLoops = 10
maxLoops == 10

Null == "null"
Min(a, b) == IF a < b THEN a ELSE b
Max(a, b) == IF a > b THEN a ELSE b
Range(s) == {s[i] : i \in DOMAIN s}

Turns == 1..MaxTurns
Phones == {"+23276000001", "+23276000002"}

TooLongReply == "Sorry, the request is taking too long. Please try again."
NoContentReply == "Sorry, I encountered an issue processing your request. Please try again."
ErrorReply == "Sorry, I encountered an error. Please try again later."

-----------------------------------------------------------------------------
(* Transcript messages *)

\* locationContext: absent, or a shared position
NoLocation == [hasLocation |-> FALSE, latitude |-> 0, longitude |-> 0]
Location == [hasLocation |-> TRUE, latitude |-> 8, longitude |-> 13]

SystemMessage == [role |-> "system", content |-> "systemPrompt"]

\* the contextual envelope: caller tag, optional location tag, the raw text
ContextualMessage(phoneE164, locationContext, userMessage) ==
    <<"[User texting from:", phoneE164>>
    \o (IF locationContext.hasLocation
           /\ locationContext.latitude # 0 /\ locationContext.longitude # 0
        THEN <<"[LOCATION_SHARED:", locationContext.latitude, locationContext.longitude>>
        ELSE <<>>)
    \o <<userMessage>>

UserMessage(phoneE164, locationContext, userMessage) ==
    [role |-> "user", content |-> ContextualMessage(phoneE164, locationContext, userMessage)]

AssistantReply(content) == [role |-> "assistant", content |-> content]

ToolMessage(id, result) == [role |-> "tool", tool_call_id |-> id, content |-> result]

\* the null a fan-out element resolves to when it answers nothing
NoMessage == [role |-> Null]

-----------------------------------------------------------------------------
(* Tool results: the fields of the JSON object handed back to the model *)

Result(success, hasError, hasMessage) ==
    [success |-> success, error |-> hasError, message |-> hasMessage]

\* processMessage's own result for an argument payload that does not parse
ParseFailure == Result(FALSE, TRUE, FALSE)
\* executeFunction: no handler under that name
UnknownFunction == Result(FALSE, TRUE, TRUE)
\* executeFunction: the handler threw
ExecutionError == Result(FALSE, TRUE, TRUE)

\* the registry: toolHandlers
toolHandlers == {"verify_information", "update_verification_status",
                 "report_cyber_threat", "escalate_information_request"}

\* what a handler can return, by the shape of its return statements
HandlerResults(name) ==
    CASE name = "verify_information" ->
            {Result(TRUE, FALSE, FALSE), Result(FALSE, TRUE, TRUE)}
      [] name = "update_verification_status" ->
            {Result(TRUE, FALSE, TRUE), Result(FALSE, TRUE, FALSE)}
      [] OTHER ->
            {Result(TRUE, FALSE, TRUE), Result(FALSE, TRUE, TRUE)}

\* JSON.parse(toolCall.function.arguments), on the three kinds of payload the
\* model can send: text that is no JSON, the JSON null, a JSON object
JSONparse(arguments) ==
    CASE arguments = "{bad" -> [ok |-> FALSE, value |-> Null]
      [] arguments = "null" -> [ok |-> TRUE, value |-> Null]
      [] OTHER -> [ok |-> TRUE, value |-> "object"]

-----------------------------------------------------------------------------
(* The language model, as the loop sees it *)

\* the kinds of tool call a response may carry: a call that is no function call,
\* an argument payload that is no JSON, a name the registry does not hold, a
\* payload the handler cannot destructure, and two well-formed calls
CallMenu ==
    { [type |-> "custom",   name |-> Null,                 arguments |-> Null],
      [type |-> "function", name |-> "verify_information", arguments |-> "{bad"],
      [type |-> "function", name |-> "no_such_tool",       arguments |-> "{}"],
      [type |-> "function", name |-> "verify_information", arguments |-> "null"],
      [type |-> "function", name |-> "verify_information", arguments |-> "{}"],
      [type |-> "function", name |-> "update_verification_status", arguments |-> "{}"] }

\* a well-formed call of a registered tool
PlainCall == [type |-> "function", name |-> "verify_information", arguments |-> "{}"]

CallLists(n) == UNION { [1..k -> env.menu] : k \in 0..n }

\* the model gives every call of a response its own id
WithIds(calls, requestNo) ==
    [i \in DOMAIN calls |->
        [id |-> <<requestNo, i>>, type |-> calls[i].type,
         name |-> calls[i].name, arguments |-> calls[i].arguments]]

\* completion.choices[0], for the request numbered requestNo of a turn that has
\* asked for `asked` tool calls in `rounds` tool-call responses so far
Completions(requestNo, asked, rounds) ==
    { [finish_reason |-> "stop", tool_calls |-> <<>>, content |-> c] : c \in {Null, "answer"} }
    \cup
    (IF rounds < env.rounds
     THEN { [finish_reason |-> "tool_calls", tool_calls |-> WithIds(calls, requestNo),
             content |-> Null] : calls \in CallLists(env.toolCalls - asked) }
     ELSE {})

\* what a specification lets its environment do; each Init sets its own
NoEnv ==
    [turns |-> 0,          \* processMessage invocations
     callers |-> {},       \* the phones that send messages
     toolCalls |-> 0,      \* tool calls the model may request per turn
     rounds |-> 0,         \* tool-call responses the model may give per turn
     menu |-> {},          \* the kinds of tool call the model sends
     overlap |-> 1,        \* processMessage invocations in flight at a time
     modelFaults |-> FALSE,\* whether a completion request may fail
     dbFaults |-> FALSE,   \* whether a persistence operation may fail
     invocations |-> 0,    \* direct handler invocations
     parallel |-> 0,       \* handler invocations in flight at a time
     inputs |-> {},        \* the [tool, args] a handler is invoked with
     retrievals |-> {},    \* what the retrieval service answers
     samples |-> {},       \* elapsed times Date.now() - startTime, in ms
     clears |-> 0,         \* clearUserConversation calls
     answers |-> 0,        \* requests an operator marks as answered
     problems |-> 0]       \* problems reported

-----------------------------------------------------------------------------
(* Session store *)

NoSession == [messages |-> 0, lastActivity |-> 0]
HasSession(phone) == conversationHistory[phone] # NoSession

\* (mutant) a new session starts with an empty transcript
getOrCreateConversation_unseeded(phoneE164) ==
    IF HasSession(phoneE164)
    THEN [history |-> [conversationHistory EXCEPT ![phoneE164].lastActivity = clock],
          heap |-> heap,
          messages |-> conversationHistory[phoneE164].messages]
    ELSE [history |-> [conversationHistory EXCEPT
                          ![phoneE164] = [messages |-> Len(heap) + 1, lastActivity |-> clock]],
          heap |-> Append(heap, <<>>),
          messages |-> Len(heap) + 1]

\* getOrCreateConversation: the store, the heap and the reference it returns
getOrCreateConversation(phoneE164) ==
    IF HasSession(phoneE164)
    THEN [history |-> [conversationHistory EXCEPT ![phoneE164].lastActivity = clock],
          heap |-> heap,
          messages |-> conversationHistory[phoneE164].messages]
    ELSE [history |-> [conversationHistory EXCEPT
                          ![phoneE164] = [messages |-> Len(heap) + 1, lastActivity |-> clock]],
          heap |-> Append(heap, <<SystemMessage>>),
          messages |-> Len(heap) + 1]

-----------------------------------------------------------------------------
(* Bookkeeping helpers of the agent: each swallows its own failure *)

DbOutcomes == IF env.dbFaults THEN {TRUE, FALSE} ELSE {TRUE}

\* ensureUserExists: try { upsert } catch { log }
ensureUserExists(dbOk) == IF dbOk THEN "ok" ELSE "caught"

\* (mutant) logActivity without its try/catch
logActivity_unguarded(dbOk) == IF dbOk THEN "ok" ELSE "throws"

\* logActivity: try { create } catch { log }
logActivity(dbOk) == IF dbOk THEN "ok" ELSE "caught"

\* (mutant) the row is written without the caller
Logged_anonymous(dbOk, action, phone) ==
    IF dbOk THEN Append(activityLog, [action |-> action, userPhone |-> "unknown"])
    ELSE activityLog

\* the activity log after logActivity(action, phone)
Logged(dbOk, action, phone) ==
    IF dbOk THEN Append(activityLog, [action |-> action, userPhone |-> phone]) ELSE activityLog

-----------------------------------------------------------------------------
(* processMessage *)

IdleTurn ==
    [pc |-> "idle", phone |-> Null, location |-> NoLocation, text |-> Null,
     messages |-> 0, startLen |-> 0, loopCount |-> 0, requests |-> 0, asked |-> 0,
     calls |-> <<>>, slots |-> <<>>, finish |-> Null, content |-> Null, reply |-> Null,
     userFault |-> FALSE, logFault |-> FALSE, modelFault |-> FALSE, pushed |-> 0,
     contexts |-> <<>>]

Started == {t \in Turns : turn[t].pc # "idle"}
Running == {t \in Turns : turn[t].pc \notin {"idle", "done", "threw"}}
Transcript(t) == heap[turn[t].messages]

\* (mutant) the loop test off by one
ContinueLoop_inclusive(completion, loopCount) ==
    completion.finish_reason = "tool_calls" /\ loopCount <= maxLoops

\* the while condition of the loop
ContinueLoop(completion, loopCount) ==
    completion.finish_reason = "tool_calls" /\ loopCount < maxLoops

\* (mutant) a payload that does not parse answers nothing
StartCall_dropsUnparsed(toolCall) ==
    IF toolCall.type = "function" /\ JSONparse(toolCall.arguments).ok
    THEN IF toolCall.name \notin toolHandlers
         THEN [done |-> TRUE, msg |-> ToolMessage(toolCall.id, UnknownFunction)]
         ELSE IF JSONparse(toolCall.arguments).value = Null
         THEN [done |-> TRUE, msg |-> ToolMessage(toolCall.id, ExecutionError)]
         ELSE [done |-> FALSE, msg |-> NoMessage]
    ELSE [done |-> TRUE, msg |-> NoMessage]

\* one element of the Promise.all fan-out, up to its first await: the slot holds
\* the value the element resolved to, or waits for the handler
StartCall(toolCall) ==
    IF toolCall.type = "function"
    THEN LET args == JSONparse(toolCall.arguments) IN
         IF ~args.ok
         THEN [done |-> TRUE, msg |-> ToolMessage(toolCall.id, ParseFailure)]
         ELSE IF toolCall.name \notin toolHandlers
         THEN [done |-> TRUE, msg |-> ToolMessage(toolCall.id, UnknownFunction)]
         ELSE IF args.value = Null
         \* the handler destructures its arguments before its own try
         THEN [done |-> TRUE, msg |-> ToolMessage(toolCall.id, ExecutionError)]
         ELSE [done |-> FALSE, msg |-> NoMessage]
    ELSE [done |-> TRUE, msg |-> NoMessage]

\* the ToolContext executeFunction builds from the agent's fields; a call that
\* reaches no handler gets none
NoContext == [currentUserPhone |-> Null, currentLocationContext |-> NoLocation]
ToolContext ==
    [currentUserPhone |-> IF currentUserPhone = Null THEN "" ELSE currentUserPhone,
     currentLocationContext |-> currentLocationContext]

\* whether executeFunction hands the call to a handler
Handled(toolCall) ==
    /\ toolCall.type = "function"
    /\ JSONparse(toolCall.arguments).ok
    /\ toolCall.name \in toolHandlers

\* toolResults.filter((r) => r !== null)
NonNull(s) == SelectSeq(s, LAMBDA m : m # NoMessage)

\* processMessage is called: it logs and awaits ensureUserExists
Begin(t, phone, location) ==
    /\ turn[t].pc = "idle"
    /\ t = Cardinality(Started) + 1
    /\ t <= env.turns
    /\ Cardinality(Running) < env.overlap
    /\ turn' = [turn EXCEPT ![t] = [IdleTurn EXCEPT !.pc = "ensureUser", !.phone = phone,
                                       !.location = location, !.text = "hello"]]
    /\ UNCHANGED <<conversationHistory, heap, currentUserPhone, currentLocationContext,
                   clock, dbVars, env, clears, toolVars, upVars>>

\* (mutant) processMessage without its catch block
Caught_rethrown(tr) == [tr EXCEPT !.pc = "threw"]

\* the catch block of processMessage starts: it logs and awaits
\* logActivity("message_error")
Caught(tr) == [tr EXCEPT !.pc = "logError"]

\* the user upsert settles; trackConversationMessage is awaited next
EnsureUser(t) ==
    /\ turn[t].pc = "ensureUser"
    /\ \E dbOk \in DbOutcomes :
        /\ users' = IF dbOk THEN users \cup {turn[t].phone} ELSE users
        /\ turn' = [turn EXCEPT ![t] =
              IF ensureUserExists(dbOk) = "throws"
              THEN Caught([@ EXCEPT !.userFault = TRUE])
              ELSE [@ EXCEPT !.pc = "trackUser", !.userFault = ~dbOk]]
    /\ UNCHANGED <<conversationHistory, heap, currentUserPhone, currentLocationContext,
                   clock, activityLog, env, clears, toolVars, upVars>>

\* the activity row of the incoming message settles; then, in one block, the
\* agent fields are set, the session is fetched, the user message pushed and
\* the first completion requested
TrackUserMessage(t) ==
    /\ turn[t].pc = "trackUser"
    /\ \E dbOk \in DbOutcomes :
        /\ activityLog' = Logged(dbOk, "conversation_message", turn[t].phone)
        /\ IF logActivity(dbOk) = "throws"
           THEN /\ turn' = [turn EXCEPT ![t] = Caught([@ EXCEPT !.logFault = TRUE])]
                /\ UNCHANGED <<conversationHistory, heap, currentUserPhone,
                               currentLocationContext>>
           ELSE LET got == getOrCreateConversation(turn[t].phone)
                    msg == UserMessage(turn[t].phone, turn[t].location, turn[t].text)
                IN  /\ currentUserPhone' = turn[t].phone
                    /\ currentLocationContext' = turn[t].location
                    /\ conversationHistory' = got.history
                    /\ heap' = [got.heap EXCEPT ![got.messages] = Append(@, msg)]
                    /\ turn' = [turn EXCEPT ![t] =
                          [@ EXCEPT !.pc = "awaitModel", !.messages = got.messages,
                                    !.startLen = Len(got.heap[got.messages]),
                                    !.pushed = 1, !.requests = 1,
                                    !.logFault = @ \/ ~dbOk]]
    /\ UNCHANGED <<clock, users, env, clears, toolVars, upVars>>

\* a completion arrives: the loop test, and either the fan-out of its tool
\* calls or the end of the turn
ModelResponds(t) ==
    /\ turn[t].pc = "awaitModel"
    /\ \E completion \in Completions(turn[t].requests, turn[t].asked, turn[t].loopCount) :
        IF ContinueLoop(completion, turn[t].loopCount)
        THEN /\ heap' = [heap EXCEPT ![turn[t].messages] =
                             Append(@, [role |-> "assistant", content |-> completion.content,
                                        tool_calls |-> completion.tool_calls])]
             /\ turn' = [turn EXCEPT ![t] =
                   [@ EXCEPT !.pc = "awaitTools", !.loopCount = @ + 1,
                             !.finish = completion.finish_reason,
                             !.calls = completion.tool_calls,
                             !.asked = @ + Len(completion.tool_calls),
                             !.pushed = @ + 1,
                             !.slots = [i \in DOMAIN completion.tool_calls |->
                                           StartCall(completion.tool_calls[i])],
                             !.contexts = [i \in DOMAIN completion.tool_calls |->
                                              IF Handled(completion.tool_calls[i])
                                              THEN ToolContext ELSE NoContext]]]
        ELSE IF turn[t].loopCount >= maxLoops
        THEN /\ turn' = [turn EXCEPT ![t] =
                   [@ EXCEPT !.pc = "done", !.reply = TooLongReply,
                             !.finish = completion.finish_reason,
                             !.content = completion.content,
                             !.calls = completion.tool_calls]]
             /\ UNCHANGED heap
        ELSE IF completion.content # Null
        THEN /\ heap' = [heap EXCEPT ![turn[t].messages] =
                             Append(@, AssistantReply(completion.content))]
             /\ turn' = [turn EXCEPT ![t] =
                   [@ EXCEPT !.pc = "trackReply", !.content = completion.content,
                             !.finish = completion.finish_reason,
                             !.pushed = @ + 1, !.calls = <<>>]]
        ELSE /\ turn' = [turn EXCEPT ![t] =
                   [@ EXCEPT !.pc = "done", !.reply = NoContentReply,
                             !.finish = completion.finish_reason, !.calls = <<>>]]
             /\ UNCHANGED heap
    /\ UNCHANGED <<conversationHistory, currentUserPhone, currentLocationContext,
                   clock, dbVars, env, clears, toolVars, upVars>>

\* the completion request rejects, or its response has no choices[0]
ModelFails(t) ==
    /\ turn[t].pc = "awaitModel"
    /\ env.modelFaults
    /\ turn' = [turn EXCEPT ![t] = Caught([@ EXCEPT !.modelFault = TRUE])]
    /\ UNCHANGED <<conversationHistory, heap, currentUserPhone, currentLocationContext,
                   clock, dbVars, env, clears, toolVars, upVars>>

\* the handler of one call settles
ToolReturns(t, i) ==
    /\ turn[t].pc = "awaitTools"
    /\ i \in DOMAIN turn[t].slots
    /\ ~turn[t].slots[i].done
    /\ \E result \in HandlerResults(turn[t].calls[i].name) :
        turn' = [turn EXCEPT ![t].slots[i] =
                    [done |-> TRUE, msg |-> ToolMessage(turn[t].calls[i].id, result)]]
    /\ UNCHANGED <<conversationHistory, heap, currentUserPhone, currentLocationContext,
                   clock, dbVars, env, clears, toolVars, upVars>>

\* Promise.all resolves: the results are pushed and the next completion requested
FanIn(t) ==
    /\ turn[t].pc = "awaitTools"
    /\ \A i \in DOMAIN turn[t].slots : turn[t].slots[i].done
    /\ LET toolResults == NonNull([i \in DOMAIN turn[t].slots |-> turn[t].slots[i].msg])
       IN  /\ heap' = [heap EXCEPT ![turn[t].messages] = @ \o toolResults]
           /\ turn' = [turn EXCEPT ![t] =
                 [@ EXCEPT !.pc = "awaitModel", !.requests = @ + 1,
                           !.pushed = @ + Len(toolResults), !.slots = <<>>]]
    /\ UNCHANGED <<conversationHistory, currentUserPhone, currentLocationContext,
                   clock, dbVars, env, clears, toolVars, upVars>>

\* the activity row of the assistant response settles
TrackReply(t) ==
    /\ turn[t].pc = "trackReply"
    /\ \E dbOk \in DbOutcomes :
        /\ activityLog' = Logged(dbOk, "conversation_message", turn[t].phone)
        /\ turn' = [turn EXCEPT ![t] =
              IF logActivity(dbOk) = "throws"
              THEN Caught([@ EXCEPT !.logFault = TRUE])
              ELSE [@ EXCEPT !.pc = "logProcessed", !.logFault = @ \/ ~dbOk]]
    /\ UNCHANGED <<conversationHistory, heap, currentUserPhone, currentLocationContext,
                   clock, users, env, clears, toolVars, upVars>>

\* the message_processed row settles; the content is returned
LogProcessed(t) ==
    /\ turn[t].pc = "logProcessed"
    /\ \E dbOk \in DbOutcomes :
        /\ activityLog' = Logged(dbOk, "message_processed", turn[t].phone)
        /\ turn' = [turn EXCEPT ![t] =
              IF logActivity(dbOk) = "throws"
              THEN Caught([@ EXCEPT !.logFault = TRUE])
              ELSE [@ EXCEPT !.pc = "done", !.reply = turn[t].content,
                             !.logFault = @ \/ ~dbOk]]
    /\ UNCHANGED <<conversationHistory, heap, currentUserPhone, currentLocationContext,
                   clock, users, env, clears, toolVars, upVars>>

\* the message_error row of the catch block settles; the apology is returned
LogError(t) ==
    /\ turn[t].pc = "logError"
    /\ \E dbOk \in DbOutcomes :
        /\ activityLog' = Logged(dbOk, "message_error", turn[t].phone)
        /\ turn' = [turn EXCEPT ![t] =
              IF logActivity(dbOk) = "throws"
              THEN [@ EXCEPT !.pc = "threw", !.logFault = TRUE]
              ELSE [@ EXCEPT !.pc = "done", !.reply = ErrorReply, !.logFault = @ \/ ~dbOk]]
    /\ UNCHANGED <<conversationHistory, heap, currentUserPhone, currentLocationContext,
                   clock, users, env, clears, toolVars, upVars>>

-----------------------------------------------------------------------------
(* Spec: one turn, the model free to answer anything at every request *)


InitAgent ==
    /\ currentUserPhone = Null
    /\ currentLocationContext = NoLocation
    /\ clock = 0
    /\ turn = [t \in Turns |-> IdleTurn]
    /\ users = {}
    /\ activityLog = <<>>
    /\ informationRequest = <<>>
    /\ verification = <<>>
    /\ cyberThreatReport = <<>>
    /\ dailyStatistics = {}
    /\ inv = <<>>
    /\ clears = <<>>
    /\ problem = <<>>
    /\ problemUpvote = <<>>

Init ==
    /\ InitAgent
    \* the caller has no session yet, or one left by an earlier turn
    /\ \/ /\ conversationHistory = [p \in Phones |-> NoSession]
          /\ heap = <<>>
       \/ /\ conversationHistory = [p \in Phones |->
                IF p = "+23276000001" THEN [messages |-> 1, lastActivity |-> 0] ELSE NoSession]
          /\ heap = << <<SystemMessage, UserMessage("+23276000001", NoLocation, "hi"),
                         AssistantReply("welcome")>> >>
    /\ env = [NoEnv EXCEPT !.turns = 1, !.callers = {"+23276000001"},
                            !.toolCalls = MaxToolCalls, !.rounds = maxLoops + 1,
                            !.menu = {PlainCall}, !.dbFaults = TRUE, !.modelFaults = TRUE]

Next ==
    \E t \in Turns :
        \/ \E phone \in env.callers : Begin(t, phone, Location)
        \/ EnsureUser(t)
        \/ TrackUserMessage(t)
        \/ ModelResponds(t)
        \/ ModelFails(t)
        \/ \E i \in 1..MaxToolCalls : ToolReturns(t, i)
        \/ FanIn(t)
        \/ TrackReply(t)
        \/ LogProcessed(t)
        \/ LogError(t)

Spec == Init /\ [][Next]_vars

-----------------------------------------------------------------------------
(* SpecCalls: one turn of at most MaxRounds tool-call responses, the model   *)
(* free to send every kind of call; the bookkeeping writes succeed           *)

InitCalls ==
    /\ InitAgent
    /\ conversationHistory = [p \in Phones |-> NoSession]
    /\ heap = <<>>
    /\ env = [NoEnv EXCEPT !.turns = 1, !.callers = {"+23276000001"},
                            !.toolCalls = MaxToolCalls, !.rounds = MaxRounds,
                            !.menu = CallMenu, !.modelFaults = TRUE]

SpecCalls == InitCalls /\ [][Next]_vars

-----------------------------------------------------------------------------
(* Claims about the orchestration loop *)

IsToolRequest(m) == m.role = "assistant" /\ "tool_calls" \in DOMAIN m
IsToolResult(m) == m.role = "tool"
Last(s) == s[Len(s)]
InSession(t) == turn[t].messages # 0

\* the tool-result messages of a transcript answering call id
Answers(transcript, id) ==
    {j \in DOMAIN transcript : IsToolResult(transcript[j]) /\ transcript[j].tool_call_id = id}

\* every tool-call request of the transcript is answered once per call, and
\* every tool result answers a requested call
Answered(transcript) ==
    /\ \A k \in DOMAIN transcript :
          IsToolRequest(transcript[k]) =>
              \A i \in DOMAIN transcript[k].tool_calls :
                  Cardinality(Answers(transcript, transcript[k].tool_calls[i].id)) = 1
    /\ \A j \in DOMAIN transcript :
          IsToolResult(transcript[j]) =>
              \E k \in DOMAIN transcript :
                  /\ IsToolRequest(transcript[k])
                  /\ \E i \in DOMAIN transcript[k].tool_calls :
                        transcript[k].tool_calls[i].id = transcript[j].tool_call_id

\* C1: once the results of a response have been pushed, the transcript holds
\* exactly one tool-result message per tool call the response requested,
\* whatever the call's type, arguments or handler outcome.
C1_ToolResultsMatchCalls ==
    \A t \in Turns :
        (InSession(t) /\ turn[t].pc # "awaitTools") => Answered(Transcript(t))

\* C2 (as claimed): a turn sends at most maxLoops completion requests.
C2_AtMostTenRequests == \A t \in Turns : turn[t].requests <= maxLoops

\* C2 (amended): a turn runs at most maxLoops tool-call rounds and sends one
\* completion request before the first round and one at the end of each, so
\* at most maxLoops + 1 requests.
C2_RequestBound ==
    \A t \in Turns :
        /\ turn[t].loopCount <= maxLoops
        /\ turn[t].requests <= turn[t].loopCount + 1
        /\ turn[t].requests <= maxLoops + 1

C2_Witness == \E t \in Turns : turn[t].pc = "done" /\ turn[t].requests = maxLoops + 1

\* C3: a completion that asks for no tool call and has content ends the turn
\* with that content pushed as an assistant message and returned as the reply,
\* after any number of tool-call rounds from zero to the bound.
C3_PlainContentIsTheReply ==
    \A t \in Turns :
        (turn[t].pc = "done" /\ turn[t].finish = "stop" /\ turn[t].content # Null) =>
            /\ turn[t].reply = turn[t].content
            /\ Last(Transcript(t)) = AssistantReply(turn[t].content)

\* C4 (as claimed): a turn in which any step failed returns the apology.
C4_AnyFailureApologises ==
    \A t \in Turns :
        (turn[t].pc = "done"
           /\ (turn[t].userFault \/ turn[t].logFault \/ turn[t].modelFault)) =>
            turn[t].reply = ErrorReply

\* C4 (amended): no exception leaves processMessage; a turn whose model request
\* failed returns the apology; a failure of the user upsert or of an activity
\* row is swallowed and the turn returns what it would have returned; and no
\* step removes or rewrites a message of a transcript.
C4_NoThrowNoRollback ==
    /\ [](\A t \in Turns :
            /\ turn[t].pc # "threw"
            /\ (turn[t].pc = "done" /\ turn[t].modelFault) => turn[t].reply = ErrorReply
            /\ (turn[t].pc = "done" /\ ~turn[t].modelFault) =>
                  turn[t].reply \in {turn[t].content, TooLongReply, NoContentReply})
    /\ [][\A ref \in DOMAIN heap :
            /\ ref \in DOMAIN heap'
            /\ Len(heap'[ref]) >= Len(heap[ref])
            /\ SubSeq(heap'[ref], 1, Len(heap[ref])) = heap[ref]]_vars

C4_Witness ==
    \E t \in Turns :
        /\ turn[t].pc = "done" /\ turn[t].modelFault /\ turn[t].logFault
        /\ turn[t].loopCount >= 1
        /\ Len(Transcript(t)) > turn[t].startLen + 1

-----------------------------------------------------------------------------
(* Text.  A string is kept as its runs of equal characters, so that a text of *)
(* several hundred characters stays small: <<[ch |-> "a", n |-> 500]>>.       *)

RECURSIVE Length(_)
Length(text) == IF text = <<>> THEN 0 ELSE Head(text).n + Length(Tail(text))

\* text.substring(0, k)
RECURSIVE Substring(_, _)
Substring(text, k) ==
    IF k <= 0 \/ text = <<>> THEN <<>>
    ELSE IF Head(text).n <= k
         THEN <<Head(text)>> \o Substring(Tail(text), k - Head(text).n)
         ELSE <<[ch |-> Head(text).ch, n |-> k]>>

\* claim.substring(0, 500)
TopicLimit == 500

\* (mutant) the topic is the whole claim
Topic_untruncated(claim) == claim

Topic(claim) == Substring(claim, TopicLimit)

-----------------------------------------------------------------------------
(* Persistence helpers *)

Ids(table) == DOMAIN table

\* today.setHours(0, 0, 0, 0)
DayMs == 86400000
Today == clock \div DayMs

NoRow == <<>>

\* the data of dailyStatistics.create
NewStats(date) ==
    [date |-> date, totalVerifications |-> 0, verifiedTrue |-> 0, verifiedFalse |-> 0,
     verifiedPartial |-> 0, unverified |-> 0, totalThreats |-> 0, urgentThreats |-> 0,
     totalAmountLostDaily |-> 0, avgResponseTimeMs |-> NoRow]

\* dailyStatistics.findUnique({ where: { date } }): <<row>> or <<>>
FindStats(date) ==
    IF \E r \in dailyStatistics : r.date = date
    THEN <<CHOOSE r \in dailyStatistics : r.date = date>>
    ELSE NoRow

\* the status counters of updateData
CountStatus(row, status) ==
    CASE status = "VERIFIED" -> [row EXCEPT !.verifiedTrue = @ + 1]
      [] status = "FALSE" -> [row EXCEPT !.verifiedFalse = @ + 1]
      [] status = "PARTIALLY_TRUE" -> [row EXCEPT !.verifiedPartial = @ + 1]
      [] status = "UNVERIFIED" -> [row EXCEPT !.unverified = @ + 1]
      [] OTHER -> row

\* Math.round of a non-negative quotient a / b
Round(a, b) == (2 * a + b) \div (2 * b)

\* the new average of updateDailyStatisticsForVerification, from the row read
\* before the write; <<>> when updateData leaves the average alone
NewAverage(stats, responseTimeMs) ==
    IF responseTimeMs # 0
    THEN LET currentAvg == IF stats.avgResponseTimeMs = NoRow THEN 0
                           ELSE stats.avgResponseTimeMs[1]
             currentCount == stats.totalVerifications
         IN  <<IF currentCount > 0
               THEN Round(currentAvg * currentCount + responseTimeMs, currentCount + 1)
               ELSE responseTimeMs>>
    ELSE NoRow

\* (mutant) updateData counts the status only
VerificationUpdate_statusOnly(row, status, newAvg) ==
    IF newAvg = NoRow THEN CountStatus(row, status)
    ELSE [CountStatus(row, status) EXCEPT !.avgResponseTimeMs = newAvg]

\* the row after dailyStatistics.update applies updateData: counters are
\* incremented in the store, the average is set to the value computed before
VerificationUpdate(row, status, newAvg) ==
    LET counted == CountStatus([row EXCEPT !.totalVerifications = @ + 1], status)
    IN  IF newAvg = NoRow THEN counted ELSE [counted EXCEPT !.avgResponseTimeMs = newAvg]

ThreatUpdate(row, isUrgent, amountLost) ==
    [row EXCEPT !.totalThreats = @ + 1,
                !.urgentThreats = IF isUrgent THEN @ + 1 ELSE @,
                !.totalAmountLostDaily = IF amountLost > 0 THEN @ + amountLost ELSE @]

\* categoryMap[category] || "OTHER"
categoryMap(category) ==
    CASE category = "Government Policy" -> "GOVERNMENT_POLICY"
      [] category = "Health" -> "HEALTH"
      [] category = "Security" -> "SECURITY"
      [] category = "Financial" -> "FINANCIAL"
      [] category = "Legal" -> "LEGAL"
      [] category = "Administrative" -> "ADMINISTRATIVE"
      [] OTHER -> "OTHER"

\* the ragResponse texts, as the parts they are built from
NoInfoPhrase == "No relevant information found in government documents"
NoMatchResponse == <<NoInfoPhrase, " for this query.">>
FallbackResponse == <<"Unable to verify this information against official sources at this time.">>
MatchResponse(passages) == <<"Based on official government documents:">> \o passages

\* ragResponse.includes("No relevant information found in government documents")
IsDataGap(ragResponse) == NoInfoPhrase \in Range(ragResponse)

\* the rows verify_information's findFirst can return
VerifyMatches(topic, category) ==
    {id \in Ids(informationRequest) :
        /\ informationRequest[id].topic = topic
        /\ informationRequest[id].category = category}

\* (mutant) the lookup asks for answered requests
EscalateMatches_answered(topic, category) ==
    {id \in Ids(informationRequest) :
        /\ informationRequest[id].topic = topic
        /\ informationRequest[id].category = category
        /\ informationRequest[id].isDataGap
        /\ informationRequest[id].wasAnswered}

\* the rows escalate_information_request's findFirst can return
EscalateMatches(topic, category) ==
    {id \in Ids(informationRequest) :
        /\ informationRequest[id].topic = topic
        /\ informationRequest[id].category = category
        /\ informationRequest[id].isDataGap
        /\ ~informationRequest[id].wasAnswered}

\* const { ..., priority = "NORMAL", ... } = args
PriorityOf(args) == IF args.priority = Null THEN "NORMAL" ELSE args.priority

\* (mutant) HIGH replaces whatever the request had
UpgradedPriority_latest(priority, existingPriority) ==
    IF priority = "URGENT" \/ priority = "HIGH"
    THEN priority
    ELSE existingPriority

\* the priority written by the update of an existing request
UpgradedPriority(priority, existingPriority) ==
    IF priority = "URGENT" \/ (priority = "HIGH" /\ existingPriority = "NORMAL")
    THEN priority
    ELSE existingPriority

\* `TH-${year}-${id padded to 5}`; tempRefNumber is `TH-${year}-PENDING`.  The
\* id is written in decimal; padStart adds leading zeros and cuts nothing, so
\* the text of an id stands for its padded form
TempRefNumber == <<"TH", "year", "PENDING">>
RefNumber(id) == <<"TH", "year", ToString(id)>>

-----------------------------------------------------------------------------
(* Tool handlers.  An invocation is a record of the handler's locals; pc names *)
(* the awaited operation it is suspended on.                                   *)

NoResult == [success |-> FALSE, isDataGap |-> FALSE, id |-> 0, requestCount |-> 0]

NewInvocation(input, caller, pc) ==
    [tool |-> input.tool, args |-> input.args, caller |-> caller, pc |-> pc,
     found |-> NoRow,      \* existingRequest: <<[id, row]>> or <<>>
     rag |-> <<>>,         \* ragResponse
     zero |-> FALSE,       \* the retrieval returned no match
     hit |-> 0,            \* the information request row written
     id |-> 0,             \* the row the handler created
     date |-> 0,           \* today, of the statistics helper
     sample |-> 0,         \* responseTimeMs, of the statistics helper
     stats |-> NoRow,      \* stats, of the statistics helper
     result |-> NoResult]

InFlight == {i \in DOMAIN inv : inv[i].pc # "returned"}

FirstAwait(tool) ==
    CASE tool = "escalate_information_request" -> "esc.find"
      [] tool = "verify_information" -> "ver.rag"
      [] tool = "report_cyber_threat" -> "rep.create"
      [] tool = "update_verification_status" -> "upd.write"
      [] tool = "upvote_problem" -> "up.find"

\* a handler is called with (args, context) and runs to its first await
Invoke(input, caller) ==
    /\ Len(inv) < env.invocations
    /\ Cardinality(InFlight) < env.parallel
    /\ inv' = Append(inv, NewInvocation(input, caller, FirstAwait(input.tool)))
    /\ UNCHANGED <<turnVars, dbVars, informationRequest, verification, cyberThreatReport,
                   dailyStatistics, env, clears, upVars>>

\* return { success: false, error, message } of a handler's catch
Failed(v) == [v EXCEPT !.pc = "returned", !.result = NoResult]

\* (mutant) the statistics helper without its try/catch: when it got no row
\* its failure reaches the catch of the handler
Succeeded_unlessHelperFailed(v) ==
    IF v.stats = NoRow THEN Failed(v)
    ELSE [v EXCEPT !.pc = "returned",
                   !.result = [success |-> TRUE, isDataGap |-> IsDataGap(v.rag),
                               id |-> v.id, requestCount |-> 0]]

\* return { success: true, ... } of verify_information and report_cyber_threat,
\* after the statistics helper has returned
Succeeded(v) ==
    [v EXCEPT !.pc = "returned",
              !.result = [success |-> TRUE, isDataGap |-> IsDataGap(v.rag),
                          id |-> v.id, requestCount |-> 0]]

Pick(matches) == IF matches = {} THEN {NoRow} ELSE {<<id>> : id \in matches}

Snapshot(table, ref) == IF ref = NoRow THEN NoRow ELSE <<[id |-> ref[1], row |-> table[ref[1]]]>>

(* ---- escalate_information_request ---- *)

\* findFirst settles
EscFound(i) ==
    /\ i \in DOMAIN inv /\ inv[i].pc = "esc.find"
    /\ \E dbOk \in DbOutcomes :
        IF dbOk
        THEN \E ref \in Pick(EscalateMatches(inv[i].args.topic, inv[i].args.category)) :
                inv' = [inv EXCEPT ![i].pc = "esc.write",
                                   ![i].found = Snapshot(informationRequest, ref)]
        ELSE inv' = [inv EXCEPT ![i] = Failed(@)]
    /\ UNCHANGED <<turnVars, dbVars, informationRequest, verification, cyberThreatReport,
                   dailyStatistics, env, clears, upVars>>

\* the data of the create of a new request
NewEscalation(args, caller) ==
    [topic |-> args.topic, category |-> args.category, isDataGap |-> TRUE,
     wasAnswered |-> FALSE, requestCount |-> 1, priority |-> PriorityOf(args),
     requesterPhone |-> caller]

\* the update of the existing request, or the create of a new one, settles
EscWritten(i) ==
    /\ i \in DOMAIN inv /\ inv[i].pc = "esc.write"
    /\ \E dbOk \in DbOutcomes :
        IF ~dbOk
        THEN /\ inv' = [inv EXCEPT ![i] = Failed(@)]
             /\ UNCHANGED informationRequest
        ELSE IF inv[i].found # NoRow
        THEN LET existingRequest == inv[i].found[1]
                 id == existingRequest.id
             IN  /\ informationRequest' = [informationRequest EXCEPT
                        ![id].requestCount = @ + 1,
                        ![id].priority = UpgradedPriority(PriorityOf(inv[i].args),
                                                          existingRequest.row.priority)]
                 /\ inv' = [inv EXCEPT ![i].pc = "esc.log", ![i].hit = id,
                               ![i].result = [NoResult EXCEPT !.id = id, !.requestCount =
                                                 informationRequest[id].requestCount + 1]]
        ELSE /\ informationRequest' =
                    Append(informationRequest, NewEscalation(inv[i].args, inv[i].caller))
             /\ inv' = [inv EXCEPT ![i].pc = "esc.log",
                           ![i].hit = Len(informationRequest) + 1,
                           ![i].result = [NoResult EXCEPT !.id = Len(informationRequest) + 1,
                                                          !.requestCount = 1]]
    /\ UNCHANGED <<turnVars, dbVars, verification, cyberThreatReport, dailyStatistics, env, clears, upVars>>

\* the activity row settles; the handler returns
EscLogged(i) ==
    /\ i \in DOMAIN inv /\ inv[i].pc = "esc.log"
    /\ \E dbOk \in DbOutcomes :
        /\ activityLog' = Logged(dbOk, "information_request_escalated", inv[i].caller)
        /\ inv' = [inv EXCEPT ![i] =
              IF dbOk THEN [@ EXCEPT !.pc = "returned", !.result.success = TRUE]
              ELSE Failed(@)]
    /\ UNCHANGED <<turnVars, users, informationRequest, verification, cyberThreatReport,
                   dailyStatistics, env, clears, upVars>>

(* ---- verify_information ---- *)

\* the retrieval request settles
VerRetrieved(i) ==
    /\ i \in DOMAIN inv /\ inv[i].pc = "ver.rag"
    /\ \E answer \in env.retrievals :
        inv' = [inv EXCEPT ![i] =
            CASE answer = "matches" ->
                    [@ EXCEPT !.pc = "ver.create", !.rag = MatchResponse(<<"[Source 1] text">>)]
              [] answer = "zero" ->
                    [@ EXCEPT !.pc = "ver.find", !.rag = NoMatchResponse, !.zero = TRUE]
              [] OTHER ->
                    [@ EXCEPT !.pc = "ver.create", !.rag = FallbackResponse]]
    /\ UNCHANGED <<turnVars, dbVars, informationRequest, verification, cyberThreatReport,
                   dailyStatistics, env, clears, upVars>>

\* catch (ragError): a failure of the data-gap bookkeeping lands here too
RagFailed(v) == [v EXCEPT !.pc = "ver.create", !.rag = FallbackResponse]

\* findFirst of the data-gap bookkeeping settles
VerFound(i) ==
    /\ i \in DOMAIN inv /\ inv[i].pc = "ver.find"
    /\ \E dbOk \in DbOutcomes :
        IF dbOk
        THEN \E ref \in Pick(VerifyMatches(Topic(inv[i].args.claim),
                                           categoryMap(inv[i].args.category))) :
                inv' = [inv EXCEPT ![i].pc = "ver.write",
                                   ![i].found = Snapshot(informationRequest, ref)]
        ELSE inv' = [inv EXCEPT ![i] = RagFailed(@)]
    /\ UNCHANGED <<turnVars, dbVars, informationRequest, verification, cyberThreatReport,
                   dailyStatistics, env, clears, upVars>>

\* the data of the create of a new data gap
NewDataGap(args, caller) ==
    [topic |-> Topic(args.claim), category |-> categoryMap(args.category),
     isDataGap |-> TRUE, wasAnswered |-> FALSE, requestCount |-> 1,
     priority |-> "NORMAL", requesterPhone |-> caller]

\* the update or the create of the data-gap bookkeeping settles
VerWritten(i) ==
    /\ i \in DOMAIN inv /\ inv[i].pc = "ver.write"
    /\ \E dbOk \in DbOutcomes :
        IF ~dbOk
        THEN /\ inv' = [inv EXCEPT ![i] = RagFailed(@)]
             /\ UNCHANGED informationRequest
        ELSE IF inv[i].found # NoRow
        THEN /\ informationRequest' = [informationRequest EXCEPT
                    ![inv[i].found[1].id].requestCount = @ + 1]
             /\ inv' = [inv EXCEPT ![i].pc = "ver.create", ![i].hit = inv[i].found[1].id]
        ELSE /\ informationRequest' =
                    Append(informationRequest, NewDataGap(inv[i].args, inv[i].caller))
             /\ inv' = [inv EXCEPT ![i].pc = "ver.create",
                                   ![i].hit = Len(informationRequest) + 1]
    /\ UNCHANGED <<turnVars, dbVars, verification, cyberThreatReport, dailyStatistics, env, clears, upVars>>

\* the data of verification.create
NewVerification(v) ==
    [claim |-> v.args.claim, category |-> categoryMap(v.args.category),
     requesterPhone |-> v.caller, status |-> "PENDING", confidence |-> Null,
     ragResponse |-> v.rag]

\* verification.create settles; updateDailyStatisticsForVerification starts
VerCreated(i) ==
    /\ i \in DOMAIN inv /\ inv[i].pc = "ver.create"
    /\ \E dbOk \in DbOutcomes :
        IF dbOk
        THEN /\ verification' = Append(verification, NewVerification(inv[i]))
             /\ \E elapsed \in env.samples :
                  inv' = [inv EXCEPT ![i].pc = "stats.find", ![i].id = Len(verification) + 1,
                                     ![i].date = Today, ![i].sample = elapsed]
        ELSE /\ inv' = [inv EXCEPT ![i] = Failed(@)]
             /\ UNCHANGED verification
    /\ UNCHANGED <<turnVars, dbVars, informationRequest, cyberThreatReport,
                   dailyStatistics, env, clears, upVars>>

(* ---- report_cyber_threat ---- *)

\* the data of cyberThreatReport.create
NewReport(v) ==
    [referenceNumber |-> TempRefNumber, isUrgent |-> v.args.isUrgent,
     amountLost |-> v.args.amountLost, reporterPhone |-> v.caller,
     status |-> IF v.args.isUrgent THEN "URGENT" ELSE "PENDING"]

\* cyberThreatReport.create settles
RepCreated(i) ==
    /\ i \in DOMAIN inv /\ inv[i].pc = "rep.create"
    /\ \E dbOk \in DbOutcomes :
        IF dbOk
        THEN /\ cyberThreatReport' = Append(cyberThreatReport, NewReport(inv[i]))
             /\ inv' = [inv EXCEPT ![i].pc = "rep.ref", ![i].id = Len(cyberThreatReport) + 1]
        ELSE /\ inv' = [inv EXCEPT ![i] = Failed(@)]
             /\ UNCHANGED cyberThreatReport
    /\ UNCHANGED <<turnVars, dbVars, informationRequest, verification, dailyStatistics, env, clears, upVars>>

\* the update with the reference number settles; updateDailyStatisticsForThreat starts
RepReferenced(i) ==
    /\ i \in DOMAIN inv /\ inv[i].pc = "rep.ref"
    /\ \E dbOk \in DbOutcomes :
        IF dbOk
        THEN /\ cyberThreatReport' = [cyberThreatReport EXCEPT
                    ![inv[i].id].referenceNumber = RefNumber(inv[i].id)]
             /\ inv' = [inv EXCEPT ![i].pc = "stats.find", ![i].date = Today]
        ELSE /\ inv' = [inv EXCEPT ![i] = Failed(@)]
             /\ UNCHANGED cyberThreatReport
    /\ UNCHANGED <<turnVars, dbVars, informationRequest, verification, dailyStatistics, env, clears, upVars>>

(* ---- updateDailyStatisticsForVerification / updateDailyStatisticsForThreat ---- *)

\* findUnique settles
StatsFound(i) ==
    /\ i \in DOMAIN inv /\ inv[i].pc = "stats.find"
    /\ \E dbOk \in DbOutcomes :
        inv' = [inv EXCEPT ![i] =
            IF ~dbOk THEN Succeeded(@)
            ELSE IF FindStats(inv[i].date) = NoRow THEN [@ EXCEPT !.pc = "stats.create"]
            ELSE [@ EXCEPT !.pc = "stats.update", !.stats = FindStats(inv[i].date)]]
    /\ UNCHANGED <<turnVars, dbVars, informationRequest, verification, cyberThreatReport,
                   dailyStatistics, env, clears, upVars>>

\* create settles: the store refuses a second row for the date
StatsCreated(i) ==
    /\ i \in DOMAIN inv /\ inv[i].pc = "stats.create"
    /\ \E dbOk \in DbOutcomes :
        IF dbOk /\ FindStats(inv[i].date) = NoRow
        THEN /\ dailyStatistics' = dailyStatistics \cup {NewStats(inv[i].date)}
             /\ inv' = [inv EXCEPT ![i].pc = "stats.update",
                                   ![i].stats = <<NewStats(inv[i].date)>>]
        ELSE /\ inv' = [inv EXCEPT ![i] = Succeeded(@)]
             /\ UNCHANGED dailyStatistics
    /\ UNCHANGED <<turnVars, dbVars, informationRequest, verification, cyberThreatReport, env, clears, upVars>>

\* the row after the helper's update
StatsWrite(v, row) ==
    IF v.tool = "verify_information"
    THEN VerificationUpdate(row, "PENDING", NewAverage(v.stats[1], v.sample))
    ELSE ThreatUpdate(row, v.args.isUrgent, v.args.amountLost)

\* update settles; the helper and then the handler return
StatsUpdated(i) ==
    /\ i \in DOMAIN inv /\ inv[i].pc = "stats.update"
    /\ \E dbOk \in DbOutcomes :
        /\ dailyStatistics' =
              IF dbOk /\ FindStats(inv[i].date) # NoRow
              THEN (dailyStatistics \ {FindStats(inv[i].date)[1]})
                       \cup {StatsWrite(inv[i], FindStats(inv[i].date)[1])}
              ELSE dailyStatistics
        /\ inv' = [inv EXCEPT ![i] = Succeeded(@)]
    /\ UNCHANGED <<turnVars, dbVars, informationRequest, verification, cyberThreatReport, env, clears, upVars>>

(* ---- update_verification_status ---- *)

\* verification.update settles; the handler returns
UpdWritten(i) ==
    /\ i \in DOMAIN inv /\ inv[i].pc = "upd.write"
    /\ \E dbOk \in DbOutcomes :
        IF dbOk /\ inv[i].args.verificationId \in Ids(verification)
        THEN /\ verification' = [verification EXCEPT
                    ![inv[i].args.verificationId].status = inv[i].args.status,
                    ![inv[i].args.verificationId].confidence = inv[i].args.confidence]
             /\ inv' = [inv EXCEPT ![i].pc = "returned",
                           ![i].result = [NoResult EXCEPT !.success = TRUE,
                                                          !.id = inv[i].args.verificationId]]
        ELSE /\ inv' = [inv EXCEPT ![i] = Failed(@)]
             /\ UNCHANGED verification
    /\ UNCHANGED <<turnVars, dbVars, informationRequest, cyberThreatReport,
                   dailyStatistics, env, clears, upVars>>

-----------------------------------------------------------------------------
(* SpecGap: handler calls one after the other, every persistence operation    *)
(* succeeding: escalations of one topic, verifications of claims that share   *)
(* their first 500 characters with it or do not, and a judgment               *)

MaxCalls == 3

\* a text is a sequence of runs [ch, n] of n times the character ch
Run(ch, n) == <<[ch |-> ch, n |-> n]>>

LongTopic == Run("a", 500)
Okada == Run("o", 27)
LongClaims == {Run("a", 500) \o Run("b", 1), Run("a", 540)}

Escalations ==
    {[tool |-> "escalate_information_request",
      args |-> [topic |-> LongTopic, category |-> "HEALTH", priority |-> p]] :
        p \in {Null, "NORMAL", "HIGH", "URGENT"}}

Verifications ==
    {[tool |-> "verify_information", args |-> [claim |-> c, category |-> "Health"]] :
        c \in LongClaims}
    \cup {[tool |-> "verify_information", args |-> [claim |-> Okada, category |-> k]] :
        k \in {"Government Policy", "Sports"}}

Judgments ==
    {[tool |-> "update_verification_status",
      args |-> [verificationId |-> 1, status |-> "VERIFIED", confidence |-> "HIGH"]]}

InitTools ==
    /\ InitAgent
    /\ conversationHistory = [p \in Phones |-> NoSession]
    /\ heap = <<>>

InitGap ==
    /\ InitTools
    /\ env = [NoEnv EXCEPT !.callers = {"+23276000001"}, !.invocations = MaxCalls,
                            !.parallel = 1,
                            !.inputs = Escalations \cup Verifications \cup Judgments,
                            !.retrievals = {"matches", "zero", "fail"},
                            !.samples = {100}]

NextGap ==
    \/ \E input \in env.inputs, caller \in env.callers : Invoke(input, caller)
    \/ \E i \in 1..MaxCalls :
        \/ EscFound(i) \/ EscWritten(i) \/ EscLogged(i)
        \/ VerRetrieved(i) \/ VerFound(i) \/ VerWritten(i) \/ VerCreated(i)
        \/ StatsFound(i) \/ StatsCreated(i) \/ StatsUpdated(i)
        \/ UpdWritten(i)

SpecGap == InitGap /\ [][NextGap]_vars

-----------------------------------------------------------------------------
(* SpecAverage: verifications one after the other on one day, with the        *)
(* elapsed times the handler can measure                                      *)

InitAverage ==
    /\ InitTools
    /\ env = [NoEnv EXCEPT !.callers = {"+23276000001"}, !.invocations = MaxCalls,
                            !.parallel = 1,
                            !.inputs = {[tool |-> "verify_information",
                                         args |-> [claim |-> Okada,
                                                   category |-> "Government Policy"]]},
                            !.retrievals = {"matches", "fail"},
                            !.samples = {0, 100, 300}]

NextAverage ==
    \/ \E input \in env.inputs, caller \in env.callers : Invoke(input, caller)
    \/ \E i \in 1..MaxCalls :
        \/ VerRetrieved(i) \/ VerCreated(i)
        \/ StatsFound(i) \/ StatsCreated(i) \/ StatsUpdated(i)

SpecAverage == InitAverage /\ [][NextAverage]_vars

-----------------------------------------------------------------------------
(* SpecThreats: threat reports of two users in flight at the same time, every *)
(* persistence operation succeeding unless the store itself refuses it        *)

MaxParallel == 2

Reports ==
    {[tool |-> "report_cyber_threat", args |-> [isUrgent |-> u, amountLost |-> a]] :
        <<u, a>> \in {<<TRUE, 500000>>, <<TRUE, 250000>>, <<FALSE, 0>>}}

InitThreats ==
    /\ InitTools
    /\ env = [NoEnv EXCEPT !.callers = Phones, !.invocations = MaxParallel,
                            !.parallel = MaxParallel, !.inputs = Reports]

NextThreats ==
    \/ \E input \in env.inputs, caller \in env.callers : Invoke(input, caller)
    \/ \E i \in 1..MaxParallel :
        \/ RepCreated(i) \/ RepReferenced(i)
        \/ StatsFound(i) \/ StatsCreated(i) \/ StatsUpdated(i)

SpecThreats == InitThreats /\ [][NextThreats]_vars

-----------------------------------------------------------------------------
(* SpecSession: turns of two users while time passes and the hourly timer     *)
(* sweeps the session store                                                   *)

MaxTicks == 3

\* 60 * 60 * 1000
IdleMs == 3600000

\* (mutant) a session idle for exactly one hour counts as inactive
Expired_inclusive(conversation, now) == conversation.lastActivity <= now - IdleMs

\* conversation.lastActivity < oneHourAgo
Expired(conversation, now) == conversation.lastActivity < now - IdleMs

\* the timer callback: every inactive session is deleted from the map
cleanupInactiveConversations ==
    /\ conversationHistory' =
          [p \in Phones |->
              IF HasSession(p) /\ Expired(conversationHistory[p], clock)
              THEN NoSession
              ELSE conversationHistory[p]]
    /\ UNCHANGED <<heap, currentUserPhone, currentLocationContext, clock, turn, dbVars,
                   env, clears, toolVars, upVars>>

\* time passes between two blocks: a millisecond, or an hour
TicksTaken == (clock \div IdleMs) + (clock % IdleMs)

Tick(ms) ==
    /\ TicksTaken < MaxTicks
    /\ clock' = clock + ms
    /\ UNCHANGED <<conversationHistory, heap, currentUserPhone, currentLocationContext,
                   turn, dbVars, env, clears, toolVars, upVars>>

InitSession ==
    /\ InitTools
    /\ env = [NoEnv EXCEPT !.turns = MaxTurns, !.callers = Phones]

NextSession ==
    \/ \E t \in Turns :
        \/ \E phone \in env.callers : Begin(t, phone, Location)
        \/ EnsureUser(t)
        \/ TrackUserMessage(t)
        \/ ModelResponds(t)
        \/ TrackReply(t)
        \/ LogProcessed(t)
    \/ \E ms \in {1, IdleMs} : Tick(ms)
    \/ cleanupInactiveConversations

SpecSession == InitSession /\ [][NextSession]_vars

-----------------------------------------------------------------------------
(* Claims about the data-gap requests *)

Escalated(i) ==
    inv[i].tool = "escalate_information_request" /\ inv[i].pc \in {"esc.log", "returned"}

ZeroMatch(i) == inv[i].tool = "verify_information" /\ inv[i].zero

\* the calls that have hit the key (topic, category)
KeyHits(topic, category) ==
    {i \in DOMAIN inv :
        \/ /\ Escalated(i)
           /\ inv[i].args.topic = topic /\ inv[i].args.category = category
        \/ /\ ZeroMatch(i) /\ inv[i].pc \notin {"ver.rag", "ver.find", "ver.write"}
           /\ Substring(inv[i].args.claim, 500) = topic
           /\ categoryMap(inv[i].args.category) = category}

UnansweredGaps(topic, category) ==
    {id \in DOMAIN informationRequest :
        /\ informationRequest[id].topic = topic
        /\ informationRequest[id].category = category
        /\ informationRequest[id].isDataGap
        /\ ~informationRequest[id].wasAnswered}

\* C5: after calls of escalate_information_request one after the other with
\* the same (topic, category), exactly one unanswered data-gap row exists for
\* the key and its requestCount is the number of calls that hit the key: N
\* after N escalations.
C5_OneRowCountsEveryCall ==
    \A i \in DOMAIN inv :
        Escalated(i) =>
            LET rows == UnansweredGaps(inv[i].args.topic, inv[i].args.category)
            IN  /\ Cardinality(rows) = 1
                /\ \A id \in rows :
                      informationRequest[id].requestCount =
                          Cardinality(KeyHits(inv[i].args.topic, inv[i].args.category))

C5_Witness ==
    \E id \in DOMAIN informationRequest :
        LET hits == KeyHits(informationRequest[id].topic, informationRequest[id].category)
        IN  /\ Cardinality(hits) = MaxCalls
            /\ \A i \in hits : Escalated(i) /\ inv[i].pc = "returned"
            /\ informationRequest[id].requestCount = MaxCalls

Rank(priority) ==
    CASE priority = "NORMAL" -> 1 [] priority = "HIGH" -> 2 [] priority = "URGENT" -> 3

Requested(i) == IF inv[i].args.priority = Null THEN "NORMAL" ELSE inv[i].args.priority

\* C6: after calls of escalate_information_request one after the other with
\* the same (topic, category), the row's priority is the highest, in the order
\* NORMAL < HIGH < URGENT, of the priorities the calls asked for, a call
\* without priority asking for NORMAL.
C6_PriorityIsTheMaximum ==
    \A id \in DOMAIN informationRequest :
        LET calls == {i \in DOMAIN inv : Escalated(i) /\ inv[i].hit = id}
        IN  calls # {} =>
                /\ \E i \in calls : Requested(i) = informationRequest[id].priority
                /\ \A i \in calls :
                      Rank(Requested(i)) <= Rank(informationRequest[id].priority)

C6_Witness ==
    \E id \in DOMAIN informationRequest :
        \E i, j \in DOMAIN inv :
            /\ i < j
            /\ Escalated(i) /\ inv[i].hit = id /\ Requested(i) = "URGENT"
            /\ inv[j].pc = "returned" /\ inv[j].tool = "escalate_information_request"
            /\ inv[j].hit = id /\ inv[j].args.priority = "HIGH"
            /\ informationRequest[id].priority = "URGENT"

\* C10: a verify_information call whose retrieval returns no match creates a
\* verification in status PENDING, writes the request row keyed on the first
\* 500 characters of the claim and the mapped category, by creating it with
\* requestCount 1 or by adding exactly one to the count of an existing row,
\* and returns isDataGap = true.
C10_ZeroMatchesLogADataGap ==
    /\ [](\A i \in DOMAIN inv :
            ZeroMatch(i) =>
                /\ inv[i].pc \in {"stats.find", "stats.create", "stats.update"} =>
                      /\ verification[inv[i].id].status = "PENDING"
                      /\ verification[inv[i].id].claim = inv[i].args.claim
                /\ inv[i].pc = "returned" =>
                      /\ inv[i].result.success /\ inv[i].result.isDataGap
                      /\ inv[i].result.id \in DOMAIN verification
                      /\ inv[i].hit \in DOMAIN informationRequest)
    /\ [][\A i \in DOMAIN inv :
            (ZeroMatch(i) /\ inv[i].pc = "ver.write" /\ inv'[i].pc # "ver.write") =>
                LET topic == Substring(inv[i].args.claim, 500)
                    category == categoryMap(inv[i].args.category)
                    id == inv'[i].hit
                IN  /\ id \in DOMAIN informationRequest'
                    /\ informationRequest'[id].topic = topic
                    /\ informationRequest'[id].category = category
                    /\ IF id \in DOMAIN informationRequest
                       THEN informationRequest' = [informationRequest EXCEPT
                                                      ![id].requestCount = @ + 1]
                       ELSE /\ informationRequest'[id].requestCount = 1
                            /\ informationRequest'[id].isDataGap
                            /\ informationRequest' =
                                  Append(informationRequest, informationRequest'[id])]_vars

C10_Witness ==
    \E i, j \in DOMAIN inv :
        /\ i < j
        /\ ZeroMatch(i) /\ ZeroMatch(j)
        /\ inv[i].pc = "returned" /\ inv[j].pc = "returned"
        /\ inv[i].args.claim # inv[j].args.claim
        /\ Length(inv[i].args.claim) > 500 /\ Length(inv[j].args.claim) > 500
        /\ inv[i].hit = inv[j].hit
        /\ inv[j].result.isDataGap
        /\ informationRequest[inv[j].hit].requestCount >= 2

-----------------------------------------------------------------------------
(* Claims about the daily statistics *)

Reported == {i \in DOMAIN inv : inv[i].tool = "report_cyber_threat"
                                   /\ inv[i].pc = "returned" /\ inv[i].result.success}

RECURSIVE AmountLost(_)
AmountLost(calls) ==
    IF calls = {} THEN 0
    ELSE LET i == CHOOSE i \in calls : TRUE
         IN  inv[i].args.amountLost + AmountLost(calls \ {i})

\* C7: the statistics of a day count every report_cyber_threat call of that
\* day that returned success: totalThreats is their number, urgentThreats the
\* number of the urgent ones, totalAmountLostDaily the sum of their amounts,
\* also when the calls overlap.
C7_StatsCountEverySuccess ==
    \A date \in {inv[i].date : i \in Reported} :
        LET calls == {i \in Reported : inv[i].date = date}
            stats == FindStats(date)
        IN  /\ stats # NoRow
            /\ stats[1].totalThreats = Cardinality(calls)
            /\ stats[1].urgentThreats = Cardinality({i \in calls : inv[i].args.isUrgent})
            /\ stats[1].totalAmountLostDaily = AmountLost(calls)

Verified == {i \in DOMAIN inv : inv[i].tool = "verify_information" /\ inv[i].pc = "returned"}

\* the average the rule gives after the first k events, 0 standing for none
RECURSIVE ExpectedAverage(_)
ExpectedAverage(k) ==
    IF k = 0 THEN 0
    ELSE (2 * (ExpectedAverage(k - 1) * (k - 1) + inv[k].sample) + k) \div (2 * k)

\* C8: after verifications one after the other on a day that had no row, the
\* stored average is round((oldAvg * oldCount + newSample) / (oldCount + 1))
\* applied event by event, and totalVerifications is the number of events.
C8_RunningAverage ==
    LET k == Cardinality(Verified)
        stats == FindStats(Today)
    IN  k > 0 =>
            /\ stats # NoRow
            /\ stats[1].totalVerifications = k
            /\ (IF stats[1].avgResponseTimeMs = NoRow THEN 0
                ELSE stats[1].avgResponseTimeMs[1]) = ExpectedAverage(k)

-----------------------------------------------------------------------------
(* Claims about the session store *)

\* C9: a sweep removes exactly the sessions whose lastActivity is more than
\* one hour before the sweep and leaves every other session and every
\* transcript as it was; getOrCreateConversation sets lastActivity to the
\* time of the access, when it creates the session and when it reuses it.
C9_SweepRemovesExactlyTheIdle ==
    [][/\ cleanupInactiveConversations =>
            /\ heap' = heap
            /\ \A p \in Phones :
                  IF HasSession(p) /\ clock - conversationHistory[p].lastActivity > 3600000
                  THEN conversationHistory'[p] = NoSession
                  ELSE conversationHistory'[p] = conversationHistory[p]
       /\ \A t \in Turns :
            (turn[t].pc = "trackUser" /\ turn'[t].pc = "awaitModel") =>
                /\ conversationHistory'[turn[t].phone].messages = turn'[t].messages
                /\ conversationHistory'[turn[t].phone].lastActivity = clock
                /\ HasSession(turn[t].phone) =>
                      conversationHistory'[turn[t].phone].messages =
                          conversationHistory[turn[t].phone].messages]_vars

\* a sweep has removed the session of the first user, idle for more than an
\* hour, while the session of the second user was at most an hour idle: it is
\* still there
C9_Witness ==
    \E t, u \in Turns :
        /\ t < u
        /\ turn[t].pc = "done" /\ conversationHistory[turn[t].phone] = NoSession
        /\ turn[u].pc = "done" /\ turn[u].phone # turn[t].phone
        /\ conversationHistory[turn[u].phone].messages = turn[u].messages
        /\ clock - conversationHistory[turn[u].phone].lastActivity = 3600000
        /\ clock < 2 * 3600000

-----------------------------------------------------------------------------
(* SpecFaults: a verification and a threat report called one after the other, *)
(* on one day, while any persistence operation may fail                       *)

InitFaults ==
    /\ InitTools
    /\ env = [NoEnv EXCEPT !.callers = {"+23276000001"}, !.invocations = MaxCalls,
                            !.parallel = 1, !.dbFaults = TRUE,
                            !.inputs = {[tool |-> "verify_information",
                                         args |-> [claim |-> Okada,
                                                   category |-> "Government Policy"]],
                                        [tool |-> "report_cyber_threat",
                                         args |-> [isUrgent |-> TRUE,
                                                   amountLost |-> 500000]]},
                            !.retrievals = {"matches"},
                            !.samples = {100}]

NextFaults ==
    \/ \E input \in env.inputs, caller \in env.callers : Invoke(input, caller)
    \/ \E i \in 1..MaxCalls :
        \/ VerRetrieved(i) \/ VerCreated(i)
        \/ RepCreated(i) \/ RepReferenced(i)
        \/ StatsFound(i) \/ StatsCreated(i) \/ StatsUpdated(i)

SpecFaults == InitFaults /\ [][NextFaults]_vars

-----------------------------------------------------------------------------
(* Claims about the records and the statistics of a day *)

\* the counters of today's row, 0 when the day has no row
TodayCount(field) ==
    IF FindStats(Today) = NoRow THEN 0
    ELSE IF field = "totalVerifications" THEN FindStats(Today)[1].totalVerifications
    ELSE FindStats(Today)[1].totalThreats

\* C11: whenever no tool call is in flight, the day's totalVerifications is
\* the number of verifications created that day and its totalThreats the
\* number of threat reports created that day (every record of a behaviour
\* here is created on the one day the behaviour lasts), also when the handler
\* failed after the creation.
C11_StatsMatchRecords ==
    InFlight = {} =>
        /\ TodayCount("totalVerifications") = Len(verification)
        /\ TodayCount("totalThreats") = Len(cyberThreatReport)

Recorded ==
    {i \in DOMAIN inv :
        /\ inv[i].tool = "verify_information"
        /\ inv[i].pc \in {"stats.find", "stats.create", "stats.update", "returned"}}

\* C12: every verify_information call, whether the retrieval gave matches,
\* gave none or failed, creates exactly one verification, in status PENDING,
\* before it returns, and adds exactly one to the day's totalVerifications.
C12_EveryVerificationIsRecorded ==
    /\ [](/\ Len(verification) = Cardinality(Recorded)
          /\ TodayCount("totalVerifications") = Cardinality(Verified)
          /\ \A i \in Verified :
                /\ inv[i].result.success
                /\ inv[i].result.id \in DOMAIN verification
                /\ verification[inv[i].result.id].claim = inv[i].args.claim
                /\ verification[inv[i].result.id].ragResponse = inv[i].rag
                /\ \A j \in Verified : inv[j].result.id = inv[i].result.id => j = i)
    /\ [][\A i \in DOMAIN inv :
            (inv[i].tool = "verify_information"
               /\ inv[i].pc = "ver.create" /\ inv'[i].pc # "ver.create") =>
                /\ Len(verification') = Len(verification) + 1
                /\ verification'[Len(verification')].status = "PENDING"]_vars

\* three calls have returned: one with matches, one without, one after the
\* retrieval failed
C12_Witness ==
    /\ TodayCount("totalVerifications") = 3
    /\ \E i, j, k \in Verified :
        /\ inv[i].rag = NoMatchResponse
        /\ inv[j].rag = FallbackResponse
        /\ inv[k].rag \notin {NoMatchResponse, FallbackResponse}
        /\ \A c \in {i, j, k} : verification[inv[c].result.id].status = "PENDING"

-----------------------------------------------------------------------------
(* Claims about the faults of tool calls *)

\* a function call that cannot run: its payload does not parse, its name is
\* not registered, or its handler throws on the payload
Faulty(call) ==
    /\ call.type = "function"
    /\ \/ ~JSONparse(call.arguments).ok
       \/ call.name \notin toolHandlers
       \/ JSONparse(call.arguments).value = Null

\* C13: a faulty call of a response does not abort the turn: once the results
\* of the response are pushed, every function call of it has exactly one
\* tool-result message under its id, with success = false when the call was
\* faulty, and from the fan-out the turn can only go on to the next model
\* request.
C13_ToolFaultsDoNotAbort ==
    /\ [](\A t \in Turns :
            (InSession(t) /\ turn[t].pc # "awaitTools") =>
                \A k \in DOMAIN Transcript(t) :
                    IsToolRequest(Transcript(t)[k]) =>
                        \A i \in DOMAIN Transcript(t)[k].tool_calls :
                            LET call == Transcript(t)[k].tool_calls[i]
                                answers == Answers(Transcript(t), call.id)
                            IN  call.type = "function" =>
                                    /\ Cardinality(answers) = 1
                                    /\ \A j \in answers :
                                          /\ j > k
                                          /\ Faulty(call) =>
                                                ~Transcript(t)[j].content.success)
    /\ [][\A t \in Turns :
            turn[t].pc = "awaitTools" =>
                \/ turn'[t].pc = "awaitTools"
                \/ /\ turn'[t].pc = "awaitModel"
                   /\ turn'[t].requests = turn[t].requests + 1]_vars

\* a response with a faulty call and a call that succeeded: both are answered
\* and the next request has been sent
C13_Witness ==
    \E t \in Turns :
        /\ InSession(t) /\ turn[t].pc = "awaitModel" /\ turn[t].requests >= 2
        /\ \E k \in DOMAIN Transcript(t) :
            /\ IsToolRequest(Transcript(t)[k])
            /\ \E i, j \in DOMAIN Transcript(t)[k].tool_calls :
                /\ Faulty(Transcript(t)[k].tool_calls[i])
                /\ ~Faulty(Transcript(t)[k].tool_calls[j])
                /\ \E a, b \in DOMAIN Transcript(t) :
                    /\ Transcript(t)[a] =
                          ToolMessage(Transcript(t)[k].tool_calls[i].id, ParseFailure)
                    /\ IsToolResult(Transcript(t)[b])
                    /\ Transcript(t)[b].tool_call_id = Transcript(t)[k].tool_calls[j].id
                    /\ Transcript(t)[b].content.success

\* C14: every tool result in a transcript has the contract shape: a failure
\* carries success = false with an error and a message, a success carries
\* success = true with a message.
C14_ResultsHaveTheContractShape ==
    \A t \in Turns :
        InSession(t) =>
            \A j \in DOMAIN Transcript(t) :
                IsToolResult(Transcript(t)[j]) =>
                    LET result == Transcript(t)[j].content
                    IN  /\ result.message
                        /\ ~result.success => result.error

-----------------------------------------------------------------------------
(* SpecJudgment: verifications and judgments called one after the other; the  *)
(* model is free to send any status, for a record that exists or does not     *)

Verdicts ==
    {[tool |-> "update_verification_status",
      args |-> [verificationId |-> id, status |-> v[1], confidence |-> v[2]]] :
        id \in {1, 2},
        v \in {<<"VERIFIED", "HIGH">>, <<"FALSE", "LOW">>, <<"PENDING", "LOW">>}}

InitJudgment ==
    /\ InitTools
    /\ env = [NoEnv EXCEPT !.callers = {"+23276000001"}, !.invocations = MaxCalls,
                            !.parallel = 1,
                            !.inputs = Verdicts \cup
                                       {[tool |-> "verify_information",
                                         args |-> [claim |-> Okada,
                                                   category |-> "Government Policy"]]},
                            !.retrievals = {"matches"},
                            !.samples = {100}]

NextJudgment ==
    \/ \E input \in env.inputs, caller \in env.callers : Invoke(input, caller)
    \/ \E i \in 1..MaxCalls :
        \/ VerRetrieved(i) \/ VerCreated(i)
        \/ StatsFound(i) \/ StatsCreated(i) \/ StatsUpdated(i)
        \/ UpdWritten(i)

SpecJudgment == InitJudgment /\ [][NextJudgment]_vars

-----------------------------------------------------------------------------
(* Claims about the life of a verification *)

\* the judgments that have been written to record id
Judged(id) ==
    {i \in DOMAIN inv :
        /\ inv[i].tool = "update_verification_status"
        /\ inv[i].pc = "returned" /\ inv[i].result.success
        /\ inv[i].args.verificationId = id}

\* C15: a verification whose status has left PENDING is never PENDING again,
\* whatever the tool calls and their arguments.
C15_NoWayBackToPending ==
    \A id \in DOMAIN verification :
        (\E i \in Judged(id) : inv[i].args.status # "PENDING") =>
            verification[id].status # "PENDING"

\* C16: the status and the confidence of a verification are those of the
\* first judgment written to it, whatever was called afterwards, and no
\* verification is ever deleted.
C16_JudgedOnce ==
    /\ Len(verification) = Cardinality(Recorded)
    /\ \A id \in DOMAIN verification :
          Judged(id) # {} =>
              LET first == CHOOSE i \in Judged(id) : \A j \in Judged(id) : i <= j
              IN  /\ verification[id].status = inv[first].args.status
                  /\ verification[id].confidence = inv[first].args.confidence

-----------------------------------------------------------------------------
(* SpecBound: one turn that can run into the iteration bound, the model free  *)
(* to send well-formed function calls and calls of another type               *)

InitBound ==
    /\ InitTools
    /\ env = [NoEnv EXCEPT !.turns = 1, !.callers = {"+23276000001"},
                            !.toolCalls = MaxToolCalls, !.rounds = maxLoops + 1,
                            !.menu = {PlainCall,
                                      [type |-> "custom", name |-> Null, arguments |-> Null]},
                            !.modelFaults = TRUE]

SpecBound == InitBound /\ [][Next]_vars

\* the tool-call requests the turn has pushed
Requests(t) ==
    {k \in DOMAIN Transcript(t) : k > turn[t].startLen /\ IsToolRequest(Transcript(t)[k])}

\* C17: a turn that ends at the iteration bound replies with the fixed
\* "taking too long" message and leaves its user message and all its tool
\* exchanges in the transcript, every tool-call request answered by one
\* tool-result message per call.
C17_BoundLeavesTranscriptWellFormed ==
    \A t \in Turns :
        (turn[t].pc = "done" /\ turn[t].loopCount >= maxLoops /\ ~turn[t].modelFault) =>
            /\ turn[t].reply = TooLongReply
            /\ Transcript(t)[turn[t].startLen + 1] =
                  UserMessage(turn[t].phone, turn[t].location, turn[t].text)
            /\ Cardinality(Requests(t)) = maxLoops
            /\ Answered(Transcript(t))

-----------------------------------------------------------------------------
(* SpecClear: the turns, the clock and the sweep of SpecSession, and an       *)
(* administrator who clears sessions                                          *)

MaxClears == 2

\* conversationHistory.size
Active(history) == Cardinality({p \in Phones : history[p] # NoSession})
getActiveConversationsCount == Active(conversationHistory)

\* (mutant) the call empties the whole map
clearUserConversation_all(phoneE164) ==
    /\ Len(clears) < env.clears
    /\ conversationHistory' = [p \in Phones |-> NoSession]
    /\ clears' = Append(clears, [phone |-> phoneE164, deleted |-> HasSession(phoneE164)])
    /\ UNCHANGED <<heap, currentUserPhone, currentLocationContext, clock, turn, dbVars,
                   env, toolVars, upVars>>

\* clearUserConversation: conversationHistory.delete(phoneE164) and its result
clearUserConversation(phoneE164) ==
    /\ Len(clears) < env.clears
    /\ conversationHistory' = [conversationHistory EXCEPT ![phoneE164] = NoSession]
    /\ clears' = Append(clears, [phone |-> phoneE164, deleted |-> HasSession(phoneE164)])
    /\ UNCHANGED <<heap, currentUserPhone, currentLocationContext, clock, turn, dbVars,
                   env, toolVars, upVars>>

InitClear ==
    /\ InitTools
    /\ env = [NoEnv EXCEPT !.turns = MaxTurns, !.callers = Phones, !.clears = MaxClears]

NextClear ==
    \/ NextSession
    \/ \E phone \in Phones : clearUserConversation(phone)

SpecClear == InitClear /\ [][NextClear]_vars

\* C18: clearUserConversation(U) returns true exactly when U had a session;
\* after it U has none, the number of sessions is one less exactly when it
\* returned true, and the session of every other user, its transcript and its
\* lastActivity, is what it was.
C18_ClearRemovesOnlyThatSession ==
    [][Len(clears') = Len(clears) + 1 =>
          LET call == clears'[Len(clears')]
          IN  /\ call.deleted <=> conversationHistory[call.phone] # NoSession
              /\ conversationHistory'[call.phone] = NoSession
              /\ Active(conversationHistory') =
                    getActiveConversationsCount - (IF call.deleted THEN 1 ELSE 0)
              /\ \A p \in Phones \ {call.phone} :
                    conversationHistory'[p] = conversationHistory[p]
              /\ heap' = heap]_vars

\* a call for a user with a session returned true, a second call for the same
\* user returned false, and another user's session is still there
C18_Witness ==
    \E a, b \in DOMAIN clears :
        /\ a < b
        /\ clears[a].phone = clears[b].phone
        /\ clears[a].deleted /\ ~clears[b].deleted
        /\ \E p \in Phones \ {clears[a].phone} :
              HasSession(p) /\ conversationHistory[p].lastActivity > 0

-----------------------------------------------------------------------------
(* SpecTurns: processMessage invocations of several users in flight at once, *)
(* each asking for at most one tool call                                      *)

InitTurns ==
    /\ InitAgent
    /\ conversationHistory = [p \in Phones |-> NoSession]
    /\ heap = <<>>
    /\ env = [NoEnv EXCEPT !.turns = MaxTurns, !.overlap = MaxTurns, !.callers = Phones,
                            !.toolCalls = 1, !.rounds = 1, !.menu = {PlainCall}]

NextTurns ==
    \E t \in Turns :
        \/ \E phone \in env.callers, location \in {NoLocation, Location} :
              Begin(t, phone, location)
        \/ EnsureUser(t)
        \/ TrackUserMessage(t)
        \/ ModelResponds(t)
        \/ ToolReturns(t, 1)
        \/ FanIn(t)
        \/ TrackReply(t)
        \/ LogProcessed(t)

SpecTurns == InitTurns /\ [][NextTurns]_vars

\* C19: a handler invoked in the turn of a user is given that turn's caller and
\* that turn's location, whatever other turns are in flight.
C19_ContextIsTheTurnsOwn ==
    \A t \in Turns : \A i \in DOMAIN turn[t].contexts :
        turn[t].contexts[i] # NoContext =>
            /\ turn[t].contexts[i].currentUserPhone = turn[t].phone
            /\ turn[t].contexts[i].currentLocationContext = turn[t].location

-----------------------------------------------------------------------------
(* SpecRace: escalations and zero-match verifications of one key, in flight   *)
(* at the same time                                                           *)

InitRace ==
    /\ InitTools
    /\ env = [NoEnv EXCEPT !.callers = Phones, !.invocations = MaxParallel,
                            !.parallel = MaxParallel,
                            !.inputs =
                                {e \in Escalations : e.args.priority \in {Null, "HIGH"}}
                                \cup {v \in Verifications : v.args.category = "Health"},
                            !.retrievals = {"zero"},
                            !.samples = {100}]

NextRace ==
    \/ \E input \in env.inputs, caller \in env.callers : Invoke(input, caller)
    \/ \E i \in 1..MaxParallel :
        \/ EscFound(i) \/ EscWritten(i) \/ EscLogged(i)
        \/ VerRetrieved(i) \/ VerFound(i) \/ VerWritten(i) \/ VerCreated(i)
        \/ StatsFound(i) \/ StatsCreated(i) \/ StatsUpdated(i)

SpecRace == InitRace /\ [][NextRace]_vars

\* C20: whatever the interleaving of the escalations and zero-match
\* verifications that hit one (topic, category), at most one unanswered data-gap
\* row exists for the key, and once every call has finished its requestCount is
\* the number of hits.
C20_OneRowUnderConcurrency ==
    \A i \in DOMAIN inv :
        LET topic == IF inv[i].tool = "verify_information"
                     THEN Substring(inv[i].args.claim, 500) ELSE inv[i].args.topic
            category == IF inv[i].tool = "verify_information"
                        THEN categoryMap(inv[i].args.category) ELSE inv[i].args.category
            rows == UnansweredGaps(topic, category)
        IN  /\ Cardinality(rows) <= 1
            /\ (InFlight = {} /\ KeyHits(topic, category) # {}) =>
                  \E id \in rows :
                      informationRequest[id].requestCount =
                          Cardinality(KeyHits(topic, category))

-----------------------------------------------------------------------------
(* SpecEscalate: escalations of one key, some of them in flight together      *)

InitEscalate ==
    /\ InitTools
    /\ env = [NoEnv EXCEPT !.callers = {"+23276000001"}, !.invocations = MaxCalls,
                            !.parallel = MaxParallel, !.inputs = Escalations]

NextEscalate ==
    \/ \E input \in env.inputs, caller \in env.callers : Invoke(input, caller)
    \/ \E i \in 1..MaxCalls : EscFound(i) \/ EscWritten(i) \/ EscLogged(i)

SpecEscalate == InitEscalate /\ [][NextEscalate]_vars

\* C21: no write of escalate_information_request, in any sequence or
\* interleaving of calls on one row, leaves the row with a priority lower, in
\* the order NORMAL < HIGH < URGENT, than the one it had before the write.
C21_PriorityNeverLowered ==
    [][\A id \in DOMAIN informationRequest :
          Rank(informationRequest'[id].priority) >= Rank(informationRequest[id].priority)]_vars

-----------------------------------------------------------------------------
(* SpecRecord: verifications on one day, some of them in flight together,     *)
(* every elapsed time positive                                                *)

InitRecord ==
    /\ InitTools
    /\ env = [NoEnv EXCEPT !.callers = {"+23276000001"}, !.invocations = MaxCalls,
                            !.parallel = MaxParallel,
                            !.inputs = {[tool |-> "verify_information",
                                         args |-> [claim |-> Okada,
                                                   category |-> "Government Policy"]]},
                            !.retrievals = {"matches"},
                            !.samples = {100, 300}]

NextRecord ==
    \/ \E input \in env.inputs, caller \in env.callers : Invoke(input, caller)
    \/ \E i \in 1..MaxCalls :
        \/ VerRetrieved(i) \/ VerCreated(i)
        \/ StatsFound(i) \/ StatsCreated(i) \/ StatsUpdated(i)

SpecRecord == InitRecord /\ [][NextRecord]_vars

\* the row after the helper has run for the samples one after the other
RECURSIVE OneByOne(_, _)
OneByOne(row, samples) ==
    IF samples = <<>> THEN row
    ELSE OneByOne(VerificationUpdate(row, "PENDING", NewAverage(row, Head(samples))),
                  Tail(samples))

\* the orders in which the operations can be lined up
Orders(n) == {f \in [1..n -> 1..n] : \A a, b \in 1..n : f[a] = f[b] => a = b}

\* C22: whatever the interleaving of the recordVerification operations of a
\* day, once all have finished the day's totalVerifications and average
\* response time are those that some execution of the same operations one
\* after the other produces.
C22_AverageAsIfOneByOne ==
    (InFlight = {} /\ inv # <<>>) =>
        /\ FindStats(Today) # NoRow
        /\ \E f \in Orders(Len(inv)) :
              LET row == OneByOne(NewStats(Today), [k \in 1..Len(inv) |-> inv[f[k]].sample])
              IN  /\ FindStats(Today)[1].totalVerifications = row.totalVerifications
                  /\ FindStats(Today)[1].avgResponseTimeMs = row.avgResponseTimeMs

-----------------------------------------------------------------------------
(* SpecAnswer: escalations and zero-match verifications of one key, one after *)
(* the other, while an operator of the dashboard answers requests             *)

MaxAnswers == 1

AnsweredRequests == {id \in Ids(informationRequest) : informationRequest[id].wasAnswered}

\* an operator marks a request as answered, between two tool calls
Answer(id) ==
    /\ Cardinality(AnsweredRequests) < env.answers
    /\ InFlight = {}
    /\ id \in Ids(informationRequest) \ AnsweredRequests
    /\ informationRequest' = [informationRequest EXCEPT ![id].wasAnswered = TRUE]
    /\ UNCHANGED <<turnVars, dbVars, inv, verification, cyberThreatReport,
                   dailyStatistics, env, clears, upVars>>

InitAnswer ==
    /\ InitTools
    /\ env = [NoEnv EXCEPT !.callers = {"+23276000001"}, !.invocations = MaxCalls,
                            !.parallel = 1,
                            !.inputs =
                                {e \in Escalations : e.args.priority = Null}
                                \cup {v \in Verifications : v.args.category = "Health"},
                            !.retrievals = {"zero"},
                            !.samples = {100},
                            !.answers = MaxAnswers]

NextAnswer ==
    \/ \E input \in env.inputs, caller \in env.callers : Invoke(input, caller)
    \/ \E i \in 1..MaxCalls :
        \/ EscFound(i) \/ EscWritten(i) \/ EscLogged(i)
        \/ VerRetrieved(i) \/ VerFound(i) \/ VerWritten(i) \/ VerCreated(i)
        \/ StatsFound(i) \/ StatsCreated(i) \/ StatsUpdated(i)
    \/ \E id \in 1..MaxCalls : Answer(id)

SpecAnswer == InitAnswer /\ [][NextAnswer]_vars

\* C23: the data-gap write of a zero-match verify_information never touches a
\* row that is answered or is no data gap, and when the key has no unanswered
\* data-gap row it inserts one with requestCount 1, isDataGap true and
\* wasAnswered false.
C23_VerifyUpsertsLikeEscalate ==
    [][\A i \in DOMAIN inv :
          (ZeroMatch(i) /\ inv[i].pc = "ver.write" /\ inv'[i].hit # 0) =>
              LET topic == Substring(inv[i].args.claim, 500)
                  category == categoryMap(inv[i].args.category)
              IN  /\ \A id \in DOMAIN informationRequest :
                        (informationRequest[id].wasAnswered
                            \/ ~informationRequest[id].isDataGap) =>
                                informationRequest'[id] = informationRequest[id]
                  /\ EscalateMatches(topic, category) = {} =>
                        /\ Len(informationRequest') = Len(informationRequest) + 1
                        /\ informationRequest'[inv'[i].hit].requestCount = 1
                        /\ informationRequest'[inv'[i].hit].isDataGap
                        /\ ~informationRequest'[inv'[i].hit].wasAnswered]_vars

-----------------------------------------------------------------------------
(* Claims about a turn and the session store *)

\* C24: when a turn that fetched its user's session ends, the session store
\* holds for that user the transcript the turn appended to, with the messages
\* of the turn in it, whenever the sweep ran in between.
C24_SweepSparesTheTurnInFlight ==
    [][\A t \in Turns :
          (turn[t].pc # "done" /\ turn'[t].pc = "done" /\ turn'[t].messages # 0) =>
              /\ conversationHistory'[turn'[t].phone].messages = turn'[t].messages
              /\ Len(heap'[turn'[t].messages]) >= turn'[t].startLen + turn'[t].pushed]_vars

-----------------------------------------------------------------------------
(* Claims about the threat reports *)

\* C25: whenever no report_cyber_threat call is in flight, every threat report
\* carries the reference number made from its own id and not the placeholder,
\* also when a step after its creation failed, and no two reports share a
\* reference number.
C25_EveryReportHasItsReference ==
    (\A i \in InFlight : inv[i].tool # "report_cyber_threat") =>
        /\ \A id \in DOMAIN cyberThreatReport :
              cyberThreatReport[id].referenceNumber = RefNumber(id)
        /\ \A a, b \in DOMAIN cyberThreatReport :
              a # b => cyberThreatReport[a].referenceNumber # cyberThreatReport[b].referenceNumber

-----------------------------------------------------------------------------
(* Claims about what a turn writes *)

\* the tables only the tool handlers write
HandlerTables == <<informationRequest, verification, cyberThreatReport, dailyStatistics>>

\* the sessions and transcripts of everybody but the caller of turn t
OtherSessions(t) ==
    [p \in Phones \ {turn[t].phone} |->
        [session |-> conversationHistory[p],
         transcript |-> IF HasSession(p) THEN heap[conversationHistory[p].messages]
                        ELSE <<>>]]

\* C26 as the specification states it: a step of a turn without tool calls
\* leaves every table as it was
C26_LoopWritesNoTable ==
    [][\A t \in Turns :
          turn'[t] # turn[t] =>
              /\ users' = users
              /\ activityLog' = activityLog
              /\ HandlerTables' = HandlerTables]_vars

\* C26: a turn in which the model asks for no tool call leaves daily
\* statistics, verifications, threat reports and information requests as they
\* were and changes no session and no transcript but its caller's; among the
\* tables it writes only its caller's user row and activity rows that carry
\* its caller's phone.
C26_LoopWritesOnlyItsBookkeeping ==
    [][\A t \in Turns :
          turn'[t] # turn[t] =>
              /\ HandlerTables' = HandlerTables
              /\ users' \in {users, users \cup {turn'[t].phone}}
              /\ \/ activityLog' = activityLog
                 \/ /\ Len(activityLog') = Len(activityLog) + 1
                    /\ SubSeq(activityLog', 1, Len(activityLog)) = activityLog
                    /\ activityLog'[Len(activityLog')].userPhone = turn'[t].phone
                    /\ activityLog'[Len(activityLog')].action \in
                          {"conversation_message", "message_processed", "message_error"}
              /\ turn[t].pc # "idle" => OtherSessions(t)' = OtherSessions(t)]_vars

\* a turn without tool calls has returned the model's answer: its caller is in
\* users, the log has its three rows and every handler table is empty
C26_Witness ==
    \E t \in Turns :
        /\ turn[t].pc = "done" /\ turn[t].reply = "answer" /\ turn[t].asked = 0
        /\ turn[t].phone \in users
        /\ Cardinality({k \in DOMAIN activityLog :
                           activityLog[k].userPhone = turn[t].phone}) >= 3
        /\ Len(Transcript(t)) >= turn[t].startLen + 2
        /\ informationRequest = <<>> /\ verification = <<>>
        /\ cyberThreatReport = <<>> /\ dailyStatistics = {}

-----------------------------------------------------------------------------
(* SpecLive: the turn of Spec, with every awaited operation settling and the  *)
(* event loop resuming whatever waits for it                                  *)

\* the steps of turn t after its call
Step(t) ==
    \/ EnsureUser(t)
    \/ TrackUserMessage(t)
    \/ ModelResponds(t)
    \/ ModelFails(t)
    \/ \E i \in 1..MaxToolCalls : ToolReturns(t, i)
    \/ FanIn(t)
    \/ TrackReply(t)
    \/ LogProcessed(t)
    \/ LogError(t)

SpecLive == Init /\ [][Next]_vars /\ \A t \in Turns : WF_vars(Step(t))

Replies == {"answer", TooLongReply, NoContentReply, ErrorReply}

\* C27: every turn that was called ends, with one reply: the model's content,
\* the "taking too long" message or an apology; a turn that has ended keeps
\* its reply.
C27_EveryTurnEndsWithOneReply ==
    /\ \A t \in Turns :
          (turn[t].pc # "idle") ~> (turn[t].pc = "done" /\ turn[t].reply \in Replies)
    /\ [][\A t \in Turns : turn[t].pc = "done" => turn'[t] = turn[t]]_vars

\* the model asked for tools in all ten rounds, a handler failed on the way,
\* and the turn ended with the "taking too long" message
C27_Witness ==
    \E t \in Turns :
        /\ turn[t].pc = "done"
        /\ turn[t].loopCount = maxLoops /\ turn[t].reply = TooLongReply
        /\ \E k \in DOMAIN Transcript(t) :
              /\ Transcript(t)[k].role = "tool"
              /\ ~Transcript(t)[k].content.success

-----------------------------------------------------------------------------
(* Claims about the statistics helpers and the handlers that call them *)

StatsSteps == {"stats.find", "stats.create", "stats.update"}

\* the record invocation i created is in its table
Kept(i) ==
    IF inv[i].tool = "verify_information"
    THEN inv[i].id \in DOMAIN verification
    ELSE inv[i].id \in DOMAIN cyberThreatReport

\* C28: whatever the read, the create or the update of the day's statistics
\* row does, fail included, the handler that called the helper returns
\* success = true with the id of the record it created, and that record stays
\* as it was written.
C28_StatsFailuresStayInside ==
    [][\A i \in DOMAIN inv :
          (inv[i].pc \in StatsSteps /\ inv'[i].pc = "returned") =>
              /\ inv'[i].result.success
              /\ inv'[i].result.id = inv[i].id
              /\ Kept(i)'
              /\ verification' = verification
              /\ cyberThreatReport' = cyberThreatReport]_vars

\* a verification and a threat report were both created and both calls
\* returned success, while every operation on the day's row failed: the day
\* has no row
C28_Witness ==
    \E i, j \in DOMAIN inv :
        /\ inv[i].tool = "verify_information" /\ inv[j].tool = "report_cyber_threat"
        /\ inv[i].pc = "returned" /\ inv[j].pc = "returned"
        /\ inv[i].result.success /\ inv[j].result.success
        /\ Kept(i) /\ Kept(j)
        /\ dailyStatistics = {}

-----------------------------------------------------------------------------
(* SpecDetach: turns of one user in flight together while the user's session  *)
(* is cleared                                                                 *)

InitDetach ==
    /\ InitTools
    /\ env = [NoEnv EXCEPT !.turns = MaxTurns, !.overlap = MaxTurns,
                            !.callers = {"+23276000001"}, !.clears = MaxClears]

NextDetach ==
    \/ \E t \in Turns :
        \/ \E phone \in env.callers : Begin(t, phone, Location)
        \/ EnsureUser(t)
        \/ TrackUserMessage(t)
        \/ ModelResponds(t)
        \/ TrackReply(t)
        \/ LogProcessed(t)
    \/ \E phone \in env.callers : clearUserConversation(phone)

SpecDetach == InitDetach /\ [][NextDetach]_vars

\* the messages the turns holding transcript m have pushed to it
RECURSIVE PushedTo(_, _)
PushedTo(m, ts) ==
    IF ts = {} THEN 0
    ELSE LET t == CHOOSE x \in ts : TRUE
         IN  (IF turn[t].messages = m THEN turn[t].pushed ELSE 0) + PushedTo(m, ts \ {t})

\* C29: the first getOrCreateConversation for a user after the user's session
\* was removed returns a new transcript that holds the system message and
\* nothing else; every transcript holds, after its system message, only what
\* the turns that fetched that very transcript appended, so what a turn in
\* flight at the clear appends later stays out of the new session.
C29_ClearedSessionStartsFresh ==
    /\ [](\A m \in DOMAIN heap :
             /\ heap[m][1] = SystemMessage
             /\ Len(heap[m]) = 1 + PushedTo(m, Turns))
    /\ [][\A t \in Turns :
             (turn[t].pc = "trackUser" /\ turn'[t].pc = "awaitModel"
                 /\ ~HasSession(turn[t].phone)) =>
                   /\ turn'[t].messages \notin DOMAIN heap
                   /\ conversationHistory'[turn[t].phone].messages = turn'[t].messages
                   /\ heap'[turn'[t].messages] =
                         <<SystemMessage,
                           UserMessage(turn[t].phone, turn[t].location, turn[t].text)>>
                   /\ \A m \in DOMAIN heap : heap'[m] = heap[m]]_vars

\* two turns of one user hold different transcripts, the session having been
\* cleared between their fetches; each transcript holds the system message and
\* its own turn's two messages, and the store refers to the later one
C29_Witness ==
    \E a, b \in Turns :
        /\ a < b
        /\ turn[a].phone = turn[b].phone
        /\ turn[a].pc = "done" /\ turn[a].reply = "answer"
        /\ turn[b].pc = "done" /\ turn[b].reply = "answer"
        /\ turn[a].messages # turn[b].messages
        /\ conversationHistory[turn[b].phone].messages = turn[b].messages
        /\ \E k \in DOMAIN clears : clears[k].deleted
        /\ Len(heap[turn[a].messages]) = 3
        /\ Len(heap[turn[b].messages]) = 3

-----------------------------------------------------------------------------
(* Problem reports and their upvotes.  upvote_problem runs in one store       *)
(* transaction: what it wrote shows when it commits, and nothing of it shows  *)
(* when a step of it throws.                                                  *)

MaxProblems == 1

\* report_problem, as far as the problems table goes: problem.create, the
\* row's upvoteCount starting at zero
ReportProblem(caller) ==
    /\ Len(problem) < env.problems
    /\ problem' = Append(problem, [reporterPhone |-> caller, upvoteCount |-> 0])
    /\ UNCHANGED <<turnVars, dbVars, toolVars, env, clears, problemUpvote>>

UpvoteKey(v) == [problemId |-> v.args.problemId, voterPhone |-> v.caller]

\* (mutant) the lookup finds nothing
ExistingUpvote_none(problemId, voterPhone) == {}

\* tx.problemUpvote.findUnique({ where: { problemId_voterPhone } })
ExistingUpvote(problemId, voterPhone) ==
    {k \in DOMAIN problemUpvote :
        problemUpvote[k] = [problemId |-> problemId, voterPhone |-> voterPhone]}

UpvoteResult(success, alreadyVoted, upvoteCount) ==
    [success |-> success, alreadyVoted |-> alreadyVoted, upvoteCount |-> upvoteCount]

\* the handler's catch, or its "not found" return: the transaction wrote nothing
UpvoteFailed(v) == [v EXCEPT !.pc = "returned", !.result = UpvoteResult(FALSE, FALSE, 0)]

\* the lookup of the voter's upvote settles
UpFound(i) ==
    /\ i \in DOMAIN inv /\ inv[i].pc = "up.find"
    /\ \E dbOk \in DbOutcomes :
        inv' = [inv EXCEPT ![i] =
            IF ~dbOk THEN UpvoteFailed(@)
            ELSE IF ExistingUpvote(@.args.problemId, @.caller) # {}
            THEN [@ EXCEPT !.pc = "up.problem"]
            ELSE [@ EXCEPT !.pc = "up.create"]]
    /\ UNCHANGED <<turnVars, dbVars, informationRequest, verification, cyberThreatReport,
                   dailyStatistics, env, clears, upVars>>

\* the voter had voted: tx.problem.findUnique settles and the handler returns
UpProblem(i) ==
    /\ i \in DOMAIN inv /\ inv[i].pc = "up.problem"
    /\ \E dbOk \in DbOutcomes :
        inv' = [inv EXCEPT ![i] =
            IF dbOk /\ @.args.problemId \in DOMAIN problem
            THEN [@ EXCEPT !.pc = "returned",
                           !.result = UpvoteResult(TRUE, TRUE,
                                                   problem[inv[i].args.problemId].upvoteCount)]
            ELSE UpvoteFailed(@)]
    /\ UNCHANGED <<turnVars, dbVars, informationRequest, verification, cyberThreatReport,
                   dailyStatistics, env, clears, upVars>>

\* tx.problemUpvote.create settles.  The key is unique: the insert waits while
\* another transaction holds an uncommitted row of the same key, and is
\* refused when a committed one exists
UpCreated(i) ==
    /\ i \in DOMAIN inv /\ inv[i].pc = "up.create"
    /\ \A j \in DOMAIN inv \ {i} :
          ~(inv[j].pc = "up.update" /\ UpvoteKey(inv[j]) = UpvoteKey(inv[i]))
    /\ \E dbOk \in DbOutcomes :
        inv' = [inv EXCEPT ![i] =
            IF dbOk /\ \A k \in DOMAIN problemUpvote : problemUpvote[k] # UpvoteKey(@)
            THEN [@ EXCEPT !.pc = "up.update"]
            ELSE UpvoteFailed(@)]
    /\ UNCHANGED <<turnVars, dbVars, informationRequest, verification, cyberThreatReport,
                   dailyStatistics, env, clears, upVars>>

\* tx.problem.update with the increment settles and the transaction commits:
\* the upvote row and the count show together; an update of a problem that
\* does not exist throws, and the transaction leaves nothing
UpUpdated(i) ==
    /\ i \in DOMAIN inv /\ inv[i].pc = "up.update"
    /\ \E dbOk \in DbOutcomes :
        IF dbOk /\ inv[i].args.problemId \in DOMAIN problem
        THEN /\ problemUpvote' = Append(problemUpvote, UpvoteKey(inv[i]))
             /\ problem' = [problem EXCEPT ![inv[i].args.problemId].upvoteCount = @ + 1]
             /\ inv' = [inv EXCEPT ![i].pc = "returned",
                           ![i].result = UpvoteResult(TRUE, FALSE,
                               problem[inv[i].args.problemId].upvoteCount + 1)]
        ELSE /\ inv' = [inv EXCEPT ![i] = UpvoteFailed(@)]
             /\ UNCHANGED upVars
    /\ UNCHANGED <<turnVars, dbVars, informationRequest, verification, cyberThreatReport,
                   dailyStatistics, env, clears>>

(* SpecUpvote: upvotes of two voters, some in flight together, for a problem  *)
(* that exists and for one that may not                                       *)

Upvotes == {[tool |-> "upvote_problem", args |-> [problemId |-> id]] : id \in {1, 2}}

InitUpvote ==
    /\ InitTools
    /\ env = [NoEnv EXCEPT !.callers = Phones, !.invocations = MaxCalls,
                            !.parallel = MaxParallel, !.inputs = Upvotes,
                            !.problems = MaxProblems]

NextUpvote ==
    \/ \E caller \in env.callers : ReportProblem(caller)
    \/ \E input \in env.inputs, caller \in env.callers : Invoke(input, caller)
    \/ \E i \in 1..MaxCalls : UpFound(i) \/ UpProblem(i) \/ UpCreated(i) \/ UpUpdated(i)

SpecUpvote == InitUpvote /\ [][NextUpvote]_vars

\* the voters who have an upvote row for the problem
Voters(id) ==
    {p \in Phones : \E k \in DOMAIN problemUpvote :
        problemUpvote[k] = [problemId |-> id, voterPhone |-> p]}

\* C30: at most one upvote row exists per (problem, voter) and a problem's
\* upvoteCount is the number of voters who upvoted it; a call by a voter whose
\* upvote is there returns alreadyVoted = true with that count and writes
\* nothing.
C30_UpvoteOncePerVoter ==
    /\ [](/\ \A a, b \in DOMAIN problemUpvote : problemUpvote[a] = problemUpvote[b] => a = b
          /\ \A id \in DOMAIN problem : problem[id].upvoteCount = Cardinality(Voters(id)))
    /\ [][\A i \in DOMAIN inv :
             /\ (inv[i].pc = "up.find" /\ inv'[i].pc # "up.find"
                    /\ inv[i].caller \in Voters(inv[i].args.problemId)) =>
                        inv'[i].pc = "up.problem"
             /\ (inv[i].pc = "up.problem" /\ inv'[i].pc = "returned") =>
                    /\ inv'[i].result =
                          UpvoteResult(TRUE, TRUE, problem[inv[i].args.problemId].upvoteCount)
                    /\ upVars' = upVars]_vars

\* both voters upvoted the problem, its count is two, and a voter who asked
\* again was told alreadyVoted with the count two
C30_Witness ==
    /\ 1 \in DOMAIN problem
    /\ problem[1].upvoteCount = 2
    /\ Voters(1) = Phones
    /\ \E i \in DOMAIN inv :
          /\ inv[i].tool = "upvote_problem" /\ inv[i].pc = "returned"
          /\ inv[i].result = UpvoteResult(TRUE, TRUE, 2)

=============================================================================
